---- MODULE Spec2Model ----
(***************************************************************************)
(* State-machine model of the SmartExtractor lease pipeline:               *)
(*   extract/parse_fields.py      (extract_row and its ratio rule)         *)
(*   extract/constraints.py       (suggest_*, apply_suggestions_if_missing,*)
(*                                 find_conflicts, approx_equal)           *)
(*   extract/validate_and_fill.py (compute_confidence, build_review_queue) *)
(*   app/core/state.py, app/core/pipeline.py, app/backend/main.py          *)
(*                                (working state, stage runs, field edits) *)
(*                                                                         *)
(* Numbers are exact rationals n/d (Python floats without rounding).       *)
(* Confidences and strengths are kept in hundredths (0.72 is 72).          *)
(* A date-like string is the triple of its numeric tokens in text order:   *)
(* "2023-03-05" is (2023, 3, 5) and "05/03/2023" is (5, 3, 2023).          *)
(***************************************************************************)
EXTENDS Integers, Sequences, FiniteSets, TLC

VARIABLES
    pc,            \* position in the run being modelled
    bundle,        \* anchor bundle: field -> sequence of hits
    evidence,      \* evidence map: field -> "absent" | "empty" | "text"
    notes,         \* sanity notes recorded by extract_row
    row0,          \* the row as it was before the last row-changing call
    row,           \* field -> value
    suggestions,   \* sequence of Suggestion records
    applied,       \* sequence of applied Suggestions
    conflicts,     \* sequence of Conflict records
    confidences,   \* field -> confidence in hundredths
    queue,         \* review queue: sequence of Review Items
    input,         \* job: input/lease.pdf (0 = none, else the document it holds)
    meta,          \* job: meta.json, its status and llm_status
    task,          \* job: the background task scheduled by the last run request
    ocr,           \* job: stage-1 OCR output (0 = none, else the text it holds)
    stage2,        \* job: stage2/lease_validated.json
    stage3,        \* job: stage3/lease_llm_suggestions.json
    working,       \* job: working_state.json
    working0,      \* job: working_state.json as the last run found it
    first,         \* the results of the first of two runs on one bundle
    library,       \* the anchor pattern library: field -> sequence of patterns
    text,          \* OCR text: sequence of page markers and lines
    pages,         \* parse_pages result: sequence of (page_no, lines)
    hits,          \* find_hits result: sequence of Hit records
    snippets,      \* evidence of each review item: field -> sequence of snippets
    reqs,          \* run requests being handled: request -> handler state
    tasks,         \* background tasks scheduled and not yet ended
    pipeline,      \* job: meta.json, the status recorded for each stage
    run,           \* the background task in progress: its kind and position
    final          \* job: final/lease_final.json and the spreadsheet row

jobVars == <<input, meta, task, ocr, stage2, stage3, working, working0>>

scanVars == <<text, pages, hits, snippets>>

runVars == <<reqs, tasks, pipeline, run, final>>

vars == <<pc, bundle, evidence, notes, row0, row, suggestions, applied,
          conflicts, confidences, queue, jobVars, first, library, scanVars, runVars>>

(***************************************************************************)
(* Schema                                                                  *)
(***************************************************************************)
FIELDS ==
    << "city", "building_name", "floors_units",
       "lease_start_date", "lease_end_date", "rent_start_date", "handover_date",
       "lease_tenure_months", "lock_in_period", "lock_in_end_date",
       "rent_free_period_months", "termination_notice_period_months",
       "renewal_notice_period_months",
       "carpet_area_sqft", "super_builtup_area_sqft", "efficiency", "cam_area_sqft",
       "parking_4w_included", "parking_2w_included",
       "monthly_cam_rs", "monthly_rent_rs", "rate_per_sqft_rs",
       "parking_charges_rs", "renewal_option", "stamp_duty_rs", "ifrsd_rs" >>

FieldSet == { FIELDS[i] : i \in 1..Len(FIELDS) }

(***************************************************************************)
(* Values.  One record shape for every Python value a row can hold:        *)
(*   k = "none"  None                                                      *)
(*   k = "estr"  the empty string                                          *)
(*   k = "elist" the empty list                                            *)
(*   k = "num"   the number a/b (b > 0, lowest terms)                      *)
(*   k = "str"   a date-like string with numeric tokens a, b, c            *)
(*   k = "text"  any other non-empty string (a identifies it)              *)
(***************************************************************************)
V(k, a, b, c) == [k |-> k, a |-> a, b |-> b, c |-> c]

None == V("none", 0, 0, 0)
EmptyStr == V("estr", 0, 0, 0)
EmptyList == V("elist", 0, 0, 0)
Text(i) == V("text", i, 0, 0)
DateStr(t1, t2, t3) == V("str", t1, t2, t3)

Abs(x) == IF x < 0 THEN -x ELSE x
Min(x, y) == IF x <= y THEN x ELSE y

RECURSIVE GCD(_, _)
GCD(x, y) == IF y = 0 THEN x ELSE GCD(y, x % y)

\* the rational n/d in lowest terms with a positive denominator
Num(n, d) ==
    LET s == IF d < 0 THEN -1 ELSE 1
        g == GCD(Abs(n), Abs(d))
    IN  V("num", (s * n) \div g, (s * d) \div g, 0)

IntV(n) == V("num", n, 1, 0)

IsNum(v) == v.k = "num"
IsStr(v) == v.k \in {"estr", "str", "text", "numstr", "nullword"}

\* numerators over the least common denominator keep the products small
Lcm(p, q) == (p \div GCD(p, q)) * q
RLe(x, y) == x.a * (Lcm(x.b, y.b) \div x.b) <= y.a * (Lcm(x.b, y.b) \div y.b)
RLt(x, y) == x.a * (Lcm(x.b, y.b) \div x.b) < y.a * (Lcm(x.b, y.b) \div y.b)
RSub(x, y) ==
    LET l == Lcm(x.b, y.b)
    IN  Num(x.a * (l \div x.b) - y.a * (l \div y.b), l)
RAbs(x) == V("num", Abs(x.a), x.b, 0)
RMul(x, y) == Num(x.a * y.a, x.b * y.b)
RDiv(x, y) == Num(x.a * y.b, x.b * y.a)
RMax(x, y) == IF RLe(x, y) THEN y ELSE x

\* Python truthiness of a value
Truthy(v) ==
    CASE v.k \in {"none", "estr", "elist"} -> FALSE
      [] v.k = "num" -> v.a # 0
      [] OTHER -> TRUE

IsEmpty(v) == v.k \in {"none", "estr", "elist"}      \* v in (None, "", [])
IsBlank(v) == v.k \in {"none", "estr"}               \* v in (None, "")

BlankRow == [f \in FieldSet |-> None]
EvidenceKeys == FieldSet \cup {"lock_in_equals_tenure_detected"}
NoEvidence == [f \in EvidenceKeys |-> "absent"]

(***************************************************************************)
(* Dates (extract/constraints.py)                                          *)
(***************************************************************************)
NoDate == [y |-> 0, m |-> 0, d |-> 0]
Date(y, m, d) == [y |-> y, m |-> m, d |-> d]

IsLeap(y) == (y % 4 = 0 /\ y % 100 # 0) \/ y % 400 = 0

DaysIn(y, m) ==
    CASE m \in {4, 6, 9, 11} -> 30
      [] m = 2 -> IF IsLeap(y) THEN 29 ELSE 28
      [] OTHER -> 31

ValidDate(dt) == dt.m \in 1..12 /\ dt.d >= 1 /\ dt.d <= DaysIn(dt.y, dt.m)

\* dateutil's resolution of three numeric tokens with dayfirst=True,
\* yearfirst=False: a leading year makes the string Y-D-M when the last token
\* can be a month, Y-M-D otherwise; else D-M-Y when the second token can be a
\* month, M-D-Y otherwise.
ResolveYmdDayfirst(t1, t2, t3) ==
    IF t1 > 31
    THEN IF t3 <= 12 THEN Date(t1, t3, t2) ELSE Date(t1, t2, t3)
    ELSE IF t1 > 12 \/ t2 <= 12 THEN Date(t3, t2, t1) ELSE Date(t3, t1, t2)

\* parse_date: None for a non-string, an empty string or text that does not parse
parse_date(s) ==
    IF s.k # "str" THEN NoDate
    ELSE LET dt == ResolveYmdDayfirst(s.a, s.b, s.c)
         IN  IF ValidDate(dt) THEN dt ELSE NoDate

\* date.isoformat(): YYYY-MM-DD
iso(dt) == DateStr(dt.y, dt.m, dt.d)

\* dt + relativedelta(months=n): the day is clipped to the target month's length
AddMonths(dt, n) ==
    LET t == (dt.m - 1) + n
        y2 == dt.y + (t \div 12)
        m2 == (t % 12) + 1
        last == DaysIn(y2, m2)
    IN  Date(y2, m2, IF dt.d > last THEN last ELSE dt.d)

\* dt - timedelta(days=1)
MinusOneDay(dt) ==
    IF dt.d > 1 THEN Date(dt.y, dt.m, dt.d - 1)
    ELSE IF dt.m > 1 THEN Date(dt.y, dt.m - 1, DaysIn(dt.y, dt.m - 1))
    ELSE Date(dt.y - 1, 12, 31)

\* int(x) for a number: truncation toward zero
PyInt(v) == IF v.a >= 0 THEN v.a \div v.b ELSE -((-v.a) \div v.b)

(***************************************************************************)
(* approx_equal (extract/constraints.py)                                   *)
(***************************************************************************)
AbsTol == Num(1, 1000000)
Rel == Num(2, 100)

\* x <= abs_tol for x >= 0, without forming x.a * 10^6
LeTol(x) == x.a = 0 \/ (x.b \div x.a) >= AbsTol.b

\* variant: only the absolute tolerance is applied
approx_equal_abs_only(x, y) ==
    IsNum(x) /\ IsNum(y) /\ LeTol(RAbs(RSub(x, y)))

approx_equal(x, y) ==
    IF ~(IsNum(x) /\ IsNum(y)) THEN FALSE
    ELSE LET diff == RAbs(RSub(x, y))
             big == RMax(RAbs(x), RAbs(y))
             denom == IF LeTol(big) THEN AbsTol ELSE big
         IN  IF LeTol(diff) THEN TRUE
             ELSE RLe(diff, RMul(Rel, denom))

(***************************************************************************)
(* Suggestions (extract/constraints.py)                                    *)
(***************************************************************************)
Sug(f, v, st, kind) == [field |-> f, value |-> v, strength |-> st, kind |-> kind]

suggest_dates(r) ==
    LET ls == parse_date(r["lease_start_date"])
        tenure == r["lease_tenure_months"]
        rfp == r["rent_free_period_months"]
        hd == parse_date(r["handover_date"])
        lock == r["lock_in_period"]
        endPlus == AddMonths(ls, PyInt(tenure))
        liPlus == AddMonths(ls, PyInt(lock))
        s1 == IF ls # NoDate /\ IsNum(tenure) /\ tenure.a > 0
              THEN << Sug("lease_end_date", iso(endPlus), 75, "derived"),
                      Sug("lease_end_date", iso(MinusOneDay(endPlus)), 70, "derived") >>
              ELSE << >>
        s2 == IF IsNum(rfp) /\ rfp.a >= 0 /\ ls # NoDate
              THEN << Sug("rent_start_date", iso(AddMonths(ls, PyInt(rfp))), 60, "derived") >>
              ELSE << >>
        s3 == IF IsNum(rfp) /\ rfp.a >= 0 /\ hd # NoDate
              THEN << Sug("rent_start_date", iso(AddMonths(hd, PyInt(rfp))), 60, "derived") >>
              ELSE << >>
        s4 == IF ls # NoDate /\ IsNum(lock) /\ lock.a > 0
              THEN << Sug("lock_in_end_date", iso(liPlus), 60, "derived"),
                      Sug("lock_in_end_date", iso(MinusOneDay(liPlus)), 55, "derived") >>
              ELSE << >>
    IN  s1 \o s2 \o s3 \o s4

EffMax == Num(15, 10)

suggest_numeric(r) ==
    LET carpet == r["carpet_area_sqft"]
        sba == r["super_builtup_area_sqft"]
        eff == r["efficiency"]
        rent == r["monthly_rent_rs"]
        hasC == IsNum(carpet) /\ carpet.a # 0
        hasS == IsNum(sba) /\ sba.a # 0
        effOk == IsNum(eff) /\ eff.a > 0 /\ RLe(eff, EffMax)
        s1 == IF effOk /\ hasC /\ ~hasS
              THEN << Sug("super_builtup_area_sqft", RDiv(carpet, eff), 70, "derived") >>
              ELSE << >>
        s2 == IF effOk /\ hasS /\ ~hasC
              THEN << Sug("carpet_area_sqft", RMul(sba, eff), 70, "derived") >>
              ELSE << >>
        s3 == IF hasC /\ hasS
              THEN << Sug("efficiency", RDiv(carpet, sba), 55, "inferred") >>
              ELSE << >>
        s4 == IF IsNum(rent) /\ rent.a # 0 /\ hasS
              THEN << Sug("rate_per_sqft_rs", RDiv(rent, sba), 65, "derived") >>
              ELSE << >>
    IN  s1 \o s2 \o s3 \o s4

\* by_field: the fields of a suggestion list in order of first appearance
RECURSIVE FieldOrder(_)
FieldOrder(ss) ==
    IF ss = << >> THEN << >>
    ELSE LET f == ss[1].field
         IN  << f >> \o FieldOrder(SelectSeq(Tail(ss), LAMBDA s : s.field # f))

SugsOf(ss, f) == SelectSeq(ss, LAMBDA s : s.field = f)

\* sorted(ss, key=strength, reverse=True): stable, equal strengths keep their order
RECURSIVE InsertDesc(_, _)
InsertDesc(sorted, s) ==
    IF sorted = << >> THEN << s >>
    ELSE IF Head(sorted).strength >= s.strength
         THEN << Head(sorted) >> \o InsertDesc(Tail(sorted), s)
         ELSE << s >> \o sorted

\* variant: a later suggestion of equal strength is placed first
RECURSIVE InsertDescUnstable(_, _)
InsertDescUnstable(sorted, s) ==
    IF sorted = << >> THEN << s >>
    ELSE IF Head(sorted).strength > s.strength
         THEN << Head(sorted) >> \o InsertDescUnstable(Tail(sorted), s)
         ELSE << s >> \o sorted

RECURSIVE SortedByStrengthUnstable(_)
SortedByStrengthUnstable(ss) ==
    IF ss = << >> THEN << >>
    ELSE InsertDescUnstable(SortedByStrengthUnstable(SubSeq(ss, 1, Len(ss) - 1)),
                            ss[Len(ss)])

RECURSIVE SortedByStrength(_)
SortedByStrength(ss) ==
    IF ss = << >> THEN << >>
    ELSE InsertDesc(SortedByStrength(SubSeq(ss, 1, Len(ss) - 1)), ss[Len(ss)])

\* variant: the last element of maximal strength
RECURSIVE MaxByStrengthLast(_)
MaxByStrengthLast(ss) ==
    IF Len(ss) = 1 THEN ss[1]
    ELSE LET m == MaxByStrengthLast(SubSeq(ss, 1, Len(ss) - 1))
         IN  IF ss[Len(ss)].strength >= m.strength THEN ss[Len(ss)] ELSE m

\* variant: the first element of minimal strength
RECURSIVE MinByStrength(_)
MinByStrength(ss) ==
    IF Len(ss) = 1 THEN ss[1]
    ELSE LET m == MinByStrength(SubSeq(ss, 1, Len(ss) - 1))
         IN  IF ss[Len(ss)].strength < m.strength THEN ss[Len(ss)] ELSE m

\* max(ss, key=strength): the first element of maximal strength
RECURSIVE MaxByStrength(_)
MaxByStrength(ss) ==
    IF Len(ss) = 1 THEN ss[1]
    ELSE LET m == MaxByStrength(SubSeq(ss, 1, Len(ss) - 1))
         IN  IF ss[Len(ss)].strength > m.strength THEN ss[Len(ss)] ELSE m

\* apply_suggestions_if_missing: the loop over by_field, as a fold; the result
\* is the pair (row, applied)
RECURSIVE ApplyLoop(_, _, _, _)
ApplyLoop(order, ss, r, app) ==
    IF order = << >> THEN [row |-> r, applied |-> app]
    ELSE LET f == Head(order)
             chosen == SortedByStrength(SugsOf(ss, f))[1]
         IN  IF ~IsEmpty(r[f])
             THEN ApplyLoop(Tail(order), ss, r, app)
             ELSE ApplyLoop(Tail(order), ss, [r EXCEPT ![f] = chosen.value],
                            Append(app, chosen))

apply_suggestions_if_missing(r, ss) == ApplyLoop(FieldOrder(ss), ss, r, << >>)

EndsWithDate(f) ==
    f \in {"lease_start_date", "lease_end_date", "rent_start_date",
           "handover_date", "lock_in_end_date"}

Conflict(f, cur, best) ==
    [field |-> f, current_value |-> cur, suggested_value |-> best.value]

\* the conflicts one field contributes: the numeric test, then the date test
FieldConflicts(r, ss, f) ==
    LET cur == r[f]
        best == MaxByStrength(SugsOf(ss, f))
        numc == IF IsNum(cur) /\ IsNum(best.value) /\ ~approx_equal(cur, best.value)
                THEN << Conflict(f, cur, best) >> ELSE << >>
        datec == IF EndsWithDate(f) /\ IsStr(cur) /\ IsStr(best.value)
                    /\ cur # best.value
                 THEN << Conflict(f, cur, best) >> ELSE << >>
    IN  IF IsEmpty(cur) THEN << >> ELSE numc \o datec

RECURSIVE ConflictLoop(_, _, _)
ConflictLoop(order, ss, r) ==
    IF order = << >> THEN << >>
    ELSE FieldConflicts(r, ss, Head(order)) \o ConflictLoop(Tail(order), ss, r)

find_conflicts(r, ss) == ConflictLoop(FieldOrder(ss), ss, r)

(***************************************************************************)
(* Extraction (extract/parse_fields.py).  An anchor hit is described by    *)
(* what the pickers read from its snippet:                                 *)
(*   val, sc  the value and score the picker of the hit's own field gets   *)
(*            from the snippet's qualifying line (val = None: none)        *)
(*   ratio    result of extract_ratio_from_snippet (None: no ratio clause) *)
(*   same     detect_same_relationship                                     *)
(*   car, two the counts the parking patterns capture (None: no match)     *)
(* Scores are in tenths.                                                   *)
(***************************************************************************)
MAX_ANCHORS_PER_FIELD == 20
RATIO_MIN == Num(5, 100)
RATIO_MAX == Num(120, 100)
OVERRIDE_CHARGEABLE_IF_EQUALS_CARPET_WHEN_R_LT == Num(98, 100)
IfrsdSmall == IntV(50000)

Hit(val, sc, ratio, same, car, two) ==
    [val |-> val, sc |-> sc, ratio |-> ratio, same |-> same, car |-> car, two |-> two]

iter_candidates(b, f) ==
    SubSeq(b[f], 1, Min(Len(b[f]), MAX_ANCHORS_PER_FIELD))

NoPick == [value |-> None, score |-> 0]

\* the Picks a picker collects from its candidates, in scan order
Picks(cands) ==
    LET q == SelectSeq(cands, LAMBDA h : h.val # None)
    IN  [i \in 1..Len(q) |-> [value |-> q[i].val, score |-> q[i].sc]]

\* best_pick: picks.sort(key=score, reverse=True)[0], or None
RECURSIVE FirstMaxScore(_)
FirstMaxScore(picks) ==
    IF Len(picks) = 1 THEN picks[1]
    ELSE LET m == FirstMaxScore(SubSeq(picks, 1, Len(picks) - 1))
         IN  IF picks[Len(picks)].score > m.score THEN picks[Len(picks)] ELSE m

RECURSIVE LastMaxScore(_)
LastMaxScore(picks) ==
    IF Len(picks) = 1 THEN picks[1]
    ELSE LET m == LastMaxScore(SubSeq(picks, 1, Len(picks) - 1))
         IN  IF picks[Len(picks)].score >= m.score THEN picks[Len(picks)] ELSE m

\* variant: among picks of equal score the last one is returned
best_pick_last(picks) == IF picks = << >> THEN NoPick ELSE LastMaxScore(picks)

best_pick(picks) == IF picks = << >> THEN NoPick ELSE FirstMaxScore(picks)

PickOf(b, f) == best_pick(Picks(iter_candidates(b, f)))

\* variant: any numeric ratio is accepted
RatioInRangeUnchecked(r) == IsNum(r)

\* find_ratio: the first in-range ratio among the carpet hits, then the
\* super-built-up hits; None when there is none
RatioInRange(r) == IsNum(r) /\ RLe(RATIO_MIN, r) /\ RLe(r, RATIO_MAX)

find_ratio(b) ==
    LET cs == iter_candidates(b, "carpet_area_sqft")
              \o iter_candidates(b, "super_builtup_area_sqft")
        ok == SelectSeq(cs, LAMBDA h : RatioInRange(h.ratio))
    IN  IF ok = << >> THEN None ELSE ok[1].ratio

\* |x| < 1e-6
LtTol(x) == x.a = 0 \/ ((x.b - 1) \div Abs(x.a)) >= AbsTol.b

\* an extraction in progress: the row, the evidence map and the notes
Ex(r, ev, nt) == [row |-> r, evidence |-> ev, notes |-> nt]

\* variant: the super-built-up value is replaced whenever a ratio and carpet exist
should_override_always(ca, ch, r) == TRUE

\* variant: the super-built-up value is never derived from the ratio
should_override_never(ca, ch, r) == FALSE

should_override(ca, ch, r) ==
    \/ ch = None
    \/ /\ ch # None
       /\ \/ LtTol(RSub(ch, ca)) /\ RLt(r, OVERRIDE_CHARGEABLE_IF_EQUALS_CARPET_WHEN_R_LT)
          \/ RLt(ch, ca) /\ RLe(r, IntV(1))

apply_ratio_authoritative(b, x) ==
    LET r == find_ratio(b)
        ca == x.row["carpet_area_sqft"]
        ch == x.row["super_builtup_area_sqft"]
        withEff == [x.row EXCEPT !["efficiency"] = r]
        evEff == [x.evidence EXCEPT !["efficiency"] = "text"]
    IN  IF r = None
        THEN Ex([x.row EXCEPT !["efficiency"] =
                    IF ca # None /\ ch # None /\ ch.a # 0 THEN RDiv(ca, ch) ELSE None],
                x.evidence, x.notes)
        ELSE IF ca # None /\ r.a # 0
        THEN IF should_override(ca, ch, r)
             THEN Ex([withEff EXCEPT !["super_builtup_area_sqft"] = RDiv(ca, r)],
                     [evEff EXCEPT !["super_builtup_area_sqft"] = "text"],
                     Append(x.notes, "derived_chargeable"))
             ELSE Ex(withEff, evEff, x.notes)
        ELSE IF ch # None /\ ca = None
        THEN Ex([withEff EXCEPT !["carpet_area_sqft"] = RMul(ch, r)],
                [evEff EXCEPT !["carpet_area_sqft"] = "text"],
                Append(x.notes, "derived_carpet"))
        ELSE Ex(withEff, evEff, x.notes)

\* one picked field: row[f] = p.value if p else None, evidence[f] if p
SetPick(x, f, p) ==
    Ex([x.row EXCEPT ![f] = p.value],
       IF p = NoPick THEN x.evidence ELSE [x.evidence EXCEPT ![f] = "text"],
       x.notes)

RECURSIVE PickAll(_, _, _)
PickAll(b, x, fs) ==
    IF fs = << >> THEN x
    ELSE PickAll(b, SetPick(x, Head(fs), PickOf(b, Head(fs))), Tail(fs))

\* pick_parking_pair: every single match scores the same, so the first match
\* of each kind is kept; a snippet stating both counts wins as a pair, the
\* first such snippet
pick_parking_pair(cands) ==
    LET cars == SelectSeq(cands, LAMBDA h : h.car # None)
        twos == SelectSeq(cands, LAMBDA h : h.two # None)
        both == SelectSeq(cands, LAMBDA h : h.car # None /\ h.two # None)
        P(v, sc) == [value |-> v, score |-> sc]
    IN  IF both # << >>
        THEN << P(both[1].car, 60), P(both[1].two, 60) >>
        ELSE << IF cars = << >> THEN NoPick ELSE P(cars[1].car, 30),
                IF twos = << >> THEN NoPick ELSE P(twos[1].two, 30) >>

Parking(b, x) ==
    LET pr == pick_parking_pair(iter_candidates(b, "parking_4w_included")
                                \o iter_candidates(b, "parking_2w_included"))
    IN  SetPick(SetPick(x, "parking_4w_included", pr[1]), "parking_2w_included", pr[2])

IfrsdNote(x) ==
    LET v == x.row["ifrsd_rs"]
    IN  IF v # None /\ RLt(v, IfrsdSmall)
        THEN Ex(x.row, x.evidence, Append(x.notes, "ifrsd_small")) ELSE x

\* variant: a same-as clause always copies the tenure over the lock-in
SameAsOverwrite(b, x) ==
    LET cs == iter_candidates(b, "lock_in_period")
              \o iter_candidates(b, "lease_tenure_months")
        same_clause == \E i \in 1..Len(cs) : cs[i].same
        lt == x.row["lease_tenure_months"]
        ev == [x.evidence EXCEPT !["lock_in_equals_tenure_detected"] = "flag"]
    IN  IF same_clause /\ lt # None
        THEN Ex([x.row EXCEPT !["lock_in_period"] = lt], ev,
                Append(x.notes, "same_as_lock_in"))
        ELSE x

\* the tenure / lock-in same-as enforcement at the end of extract_row
SameAs(b, x) ==
    LET cs == iter_candidates(b, "lock_in_period")
              \o iter_candidates(b, "lease_tenure_months")
        same_clause == \E i \in 1..Len(cs) : cs[i].same
        lt == x.row["lease_tenure_months"]
        li == x.row["lock_in_period"]
        ev == [x.evidence EXCEPT !["lock_in_equals_tenure_detected"] = "flag"]
    IN  IF ~same_clause THEN x
        ELSE IF lt # None /\ li = None
        THEN Ex([x.row EXCEPT !["lock_in_period"] = lt], ev,
                Append(x.notes, "same_as_lock_in"))
        ELSE IF li # None /\ lt = None
        THEN Ex([x.row EXCEPT !["lease_tenure_months"] = li], ev,
                Append(x.notes, "same_as_tenure"))
        ELSE IF lt # None /\ li # None /\ lt # li
        THEN Ex(x.row, ev, Append(x.notes, "same_as_inconsistent"))
        ELSE Ex(x.row, ev, x.notes)


\* variant: the rate is taken over the carpet area
derive_fields_over_carpet(x) ==
    LET rent == x.row["monthly_rent_rs"]
        ca == x.row["carpet_area_sqft"]
    IN  Ex([x.row EXCEPT !["rate_per_sqft_rs"] =
               IF rent # None /\ ca # None /\ ca.a # 0 THEN RDiv(rent, ca) ELSE None],
           x.evidence, x.notes)

derive_fields(x) ==
    LET rent == x.row["monthly_rent_rs"]
        ch == x.row["super_builtup_area_sqft"]
    IN  Ex([x.row EXCEPT !["rate_per_sqft_rs"] =
               IF rent # None /\ ch # None /\ ch.a # 0 THEN RDiv(rent, ch) ELSE None],
           x.evidence, x.notes)

soft_sanity(x) ==
    LET ca == x.row["carpet_area_sqft"]
        ch == x.row["super_builtup_area_sqft"]
        r == x.row["efficiency"]
        n1 == IF r # None /\ ~(RLe(RATIO_MIN, r) /\ RLe(r, RATIO_MAX))
              THEN << "efficiency_out_of_range" >> ELSE << >>
        n2 == IF ca # None /\ ch # None /\ RLt(ch, ca)
              THEN << "carpet_gt_chargeable" >> ELSE << >>
        n3 == IF ca # None /\ ch # None /\ LtTol(RSub(ca, ch)) /\ r # None
                 /\ RLt(r, Num(99, 100))
              THEN << "carpet_equals_chargeable" >> ELSE << >>
    IN  Ex(x.row, x.evidence, x.notes \o n1 \o n2 \o n3)

\* extract_row, in the order of its statements.  city, building_name and
\* floors_units are never written: row.get() reads them as None.
PickedBeforeRatio ==
    << "lease_start_date", "lease_end_date", "rent_start_date",
       "handover_date", "lock_in_end_date",
       "lease_tenure_months", "lock_in_period",
       "termination_notice_period_months",
       "renewal_notice_period_months",
       "rent_free_period_months",
       "super_builtup_area_sqft", "carpet_area_sqft",
       "cam_area_sqft" >>
PickedMoney ==
    << "monthly_rent_rs", "monthly_cam_rs",
       "parking_charges_rs", "stamp_duty_rs", "ifrsd_rs" >>

extract_row(b) ==
    LET x0 == Ex(BlankRow, NoEvidence, << >>)
        x1 == PickAll(b, x0, PickedBeforeRatio)
        x2 == apply_ratio_authoritative(b, x1)
        x3 == PickAll(b, x2, PickedMoney)
        x4 == Parking(b, IfrsdNote(x3))
        x5 == PickAll(b, x4, << "renewal_option" >>)
    IN  soft_sanity(derive_fields(SameAs(b, x5)))

\* the keys of the dict extract_row returns: `row = {}` and one assignment
\* per picked field, efficiency (both branches of apply_ratio_authoritative),
\* the parking pair, and rate_per_sqft_rs (both branches of derive_fields)
extract_row_keys ==
    { PickedBeforeRatio[i] : i \in 1..Len(PickedBeforeRatio) }
    \cup {"efficiency"}
    \cup { PickedMoney[i] : i \in 1..Len(PickedMoney) }
    \cup {"parking_4w_included", "parking_2w_included"}
    \cup {"renewal_option"}
    \cup {"rate_per_sqft_rs"}

(***************************************************************************)
(* Confidence and review queue (extract/validate_and_fill.py)              *)
(***************************************************************************)
CONF_REVIEW == 55

clamp01(x) == IF x < 0 THEN 0 ELSE IF x > 100 THEN 100 ELSE x


SeqFields(s) == { s[i].field : i \in 1..Len(s) }

base_conf_from_evidence(ev, f) == IF ev[f] = "text" THEN 72 ELSE 35

\* variant: the autofill cap replaces the base instead of capping it
FieldConfidenceAutofillSets(r, ev, app, confl, f) ==
    LET base == base_conf_from_evidence(ev, f)
        b1 == IF f \in SeqFields(app) THEN 65 ELSE base
        b2 == IF f \in SeqFields(confl) THEN Min(b1, 40) ELSE b1
    IN  IF IsBlank(r[f]) THEN clamp01(Min(base, 40)) ELSE clamp01(b2)

FieldConfidence(r, ev, app, confl, f) ==
    LET base == base_conf_from_evidence(ev, f)
        b1 == IF f \in SeqFields(app) THEN Min(base, 65) ELSE base
        b2 == IF f \in SeqFields(confl) THEN Min(b1, 40) ELSE b1
    IN  IF IsBlank(r[f]) THEN clamp01(Min(base, 40)) ELSE clamp01(b2)

compute_confidence(r, ev, app, confl) ==
    [f \in FieldSet |-> FieldConfidence(r, ev, app, confl, f)]

\* variant: low confidence is tested before the missing value
ReviewReasonLowFirst(r, conf, confl, f) ==
    IF f \in SeqFields(confl) THEN "conflict_with_derived"
    ELSE IF conf[f] < CONF_REVIEW THEN "low_confidence"
    ELSE IF IsBlank(r[f]) THEN "missing"
    ELSE "ok"

\* variant: the conflict test comes after the confidence test
ReviewReasonConflictLate(r, conf, confl, f) ==
    IF IsBlank(r[f]) THEN "missing"
    ELSE IF conf[f] < CONF_REVIEW THEN "low_confidence"
    ELSE IF f \in SeqFields(confl) THEN "conflict_with_derived"
    ELSE "ok"

ReviewReason(r, conf, confl, f) ==
    IF f \in SeqFields(confl) THEN "conflict_with_derived"
    ELSE IF IsBlank(r[f]) THEN "missing"
    ELSE IF conf[f] < CONF_REVIEW THEN "low_confidence"
    ELSE "ok"

Priority(reason) ==
    CASE reason = "conflict_with_derived" -> 0
      [] reason = "missing" -> 1
      [] reason = "low_confidence" -> 2
      [] OTHER -> 3

ReviewItem(r, conf, confl, f) ==
    [field |-> f, current_value |-> r[f], confidence |-> conf[f],
     reason |-> ReviewReason(r, conf, confl, f)]

\* variant: the sort key is the priority alone
KeyLePriorityOnly(x, y) == Priority(x.reason) <= Priority(y.reason)

\* the sort key (priority[reason], confidence), compared as Python tuples
KeyLe(x, y) ==
    \/ Priority(x.reason) < Priority(y.reason)
    \/ Priority(x.reason) = Priority(y.reason) /\ x.confidence <= y.confidence

\* items.sort(key=...): stable, ascending
RECURSIVE InsertAsc(_, _)
InsertAsc(sorted, it) ==
    IF sorted = << >> THEN << it >>
    ELSE IF KeyLe(Head(sorted), it)
         THEN << Head(sorted) >> \o InsertAsc(Tail(sorted), it)
         ELSE << it >> \o sorted

RECURSIVE SortItems(_)
SortItems(items) ==
    IF items = << >> THEN << >>
    ELSE InsertAsc(SortItems(SubSeq(items, 1, Len(items) - 1)), items[Len(items)])

build_review_queue(r, conf, confl) ==
    SortItems([i \in 1..Len(FIELDS) |-> ReviewItem(r, conf, confl, FIELDS[i])])

(***************************************************************************)
(* Field types and coerce_value (app/core/schema.py)                       *)
(***************************************************************************)
DATE_FIELDS ==
    {"lease_start_date", "lease_end_date", "rent_start_date", "handover_date",
     "lock_in_end_date"}

INT_FIELDS ==
    {"lease_tenure_months", "lock_in_period", "rent_free_period_months",
     "termination_notice_period_months", "renewal_notice_period_months",
     "parking_4w_included", "parking_2w_included"}

FLOAT_FIELDS ==
    {"carpet_area_sqft", "super_builtup_area_sqft", "cam_area_sqft", "efficiency",
     "rate_per_sqft_rs"}

MONEY_FIELDS ==
    {"monthly_cam_rs", "monthly_rent_rs", "parking_charges_rs", "stamp_duty_rs",
     "ifrsd_rs"}

\* a string whose text, commas removed, is the numeral of n/d
NumStr(n, d) == V("numstr", n, d, 0)
\* a string that strips and lower-cases to none, null, na or n/a
NullWord == V("nullword", 0, 0, 0)

\* strings stand for their stripped text; "estr" is any blank string
coerce_value(field, raw) ==
    IF raw = None THEN None
    ELSE IF raw.k \in {"estr", "nullword"} THEN None
    ELSE IF field \in DATE_FIELDS THEN raw
    ELSE IF field \in INT_FIELDS
         THEN IF raw.k \in {"num", "numstr"} THEN IntV(PyInt(raw)) ELSE raw
    ELSE IF field \in FLOAT_FIELDS \cup MONEY_FIELDS
         THEN IF raw.k \in {"num", "numstr"} THEN Num(raw.a, raw.b) ELSE raw
    ELSE raw

(***************************************************************************)
(* The stage-2 output file (extract/parse_fields.py and                    *)
(* extract/validate_and_fill.py run as scripts)                            *)
(***************************************************************************)
NullConfidence == [f \in FieldSet |-> None]

\* validate_and_fill.py main on the output of parse_fields.py
validate_main(x) ==
    LET ss == suggest_dates(x.row) \o suggest_numeric(x.row)
        res == apply_suggestions_if_missing(x.row, ss)
        confl == find_conflicts(res.row, ss)
        conf == compute_confidence(res.row, x.evidence, res.applied, confl)
    IN  [has |-> TRUE,
         row |-> res.row,
         confidence |-> [f \in FieldSet |-> Num(conf[f], 100)],
         derived |-> ss]

\* no lease_validated.json: read_json's default {} gives an empty row,
\* no confidence and no suggestion
NoStage2 ==
    [has |-> FALSE, row |-> BlankRow, confidence |-> NullConfidence, derived |-> << >>]

_load_stage2_state(s2) == [row |-> s2.row, confidence |-> s2.confidence, derived |-> s2.derived]

\* no lease_llm_suggestions.json
NoLlm == [f \in FieldSet |-> "null"]

_load_llm_state(s3) == s3

(***************************************************************************)
(* Working state (app/core/state.py); timestamps are left out              *)
(***************************************************************************)
Unreviewed == [status |-> "unreviewed", action |-> "null"]

Entry(v, c, rv, der, llm) ==
    [value |-> v, confidence |-> c, review |-> rv, derived |-> der, llm |-> llm]

\* llm_status "null" stands for None
init_working_state(r, confidence, derived, llm, llm_status) ==
    [llm_status |-> IF llm_status = "null" THEN "unknown" ELSE llm_status,
     fields |-> [f \in FieldSet |->
                    Entry(r[f], confidence[f], Unreviewed, SugsOf(derived, f), llm[f])]]

\* every state written by the program holds an entry for every field, so the
\* branch for a missing entry is never taken
merge_working_state(state, r, confidence, derived, llm, llm_status, preserve_review) ==
    [llm_status |-> IF llm_status # "null" THEN llm_status ELSE state.llm_status,
     fields |-> [f \in FieldSet |->
        LET entry == state.fields[f]
            reviewed == entry.review.status = "reviewed"
        IN  Entry(IF ~preserve_review \/ ~reviewed THEN r[f] ELSE entry.value,
                  confidence[f],
                  IF ~preserve_review THEN Unreviewed ELSE entry.review,
                  SugsOf(derived, f),
                  llm[f])]]

new_job == [status |-> "created", llm_status |-> "unknown"]

(***************************************************************************)
(* Initial values shared by the specifications                             *)
(***************************************************************************)
EmptyBundle == [f \in FieldSet |-> << >>]
NoConfidence == [f \in FieldSet |-> 0]

\* the job store holds one freshly created job that nothing acts on
\* the pattern library as shipped: every schema field has patterns (the
\* patterns themselves are not modelled, only how many there are)
FIELD_ANCHORS == [f \in FieldSet |-> << "pattern", "pattern" >>]

\* no run of the pipeline has finished yet
NoFirst == [done |-> FALSE, row |-> BlankRow, confidences |-> NoConfidence,
            queue |-> << >>]

NoSnippets == [f \in FieldSet |-> << >>]

NoScan ==
    /\ text = << >>
    /\ pages = << >>
    /\ hits = << >>
    /\ snippets = NoSnippets

DEFAULT_PIPELINE == [stage1 |-> "pending", stage2 |-> "pending", stage3 |-> "pending"]

NoFinal == [written |-> FALSE, row |-> BlankRow, excel |-> FALSE]

NoTask == [kind |-> "none", at |-> "none", started |-> {}, llm |-> "unchecked"]

NoRun ==
    /\ reqs = << >>
    /\ tasks = << >>
    /\ pipeline = DEFAULT_PIPELINE
    /\ run = NoTask
    /\ final = NoFinal

NoJob ==
    /\ input = 0
    /\ meta = new_job
    /\ task = "none"
    /\ ocr = 0
    /\ stage2 = NoStage2
    /\ stage3 = NoLlm
    /\ working = init_working_state(BlankRow, NullConfidence, << >>, NoLlm, "unknown")
    /\ working0 = working

Idle ==
    /\ bundle = EmptyBundle
    /\ evidence = NoEvidence
    /\ notes = << >>
    /\ applied = << >>
    /\ conflicts = << >>
    /\ confidences = NoConfidence
    /\ queue = << >>
    /\ NoJob
    /\ first = NoFirst
    /\ library = FIELD_ANCHORS
    /\ NoScan
    /\ NoRun

(***************************************************************************)
(* SpecSug: apply_suggestions_if_missing and find_conflicts on any row and *)
(* any suggestion list                                                     *)
(***************************************************************************)
MaxSugs == 3

DateA == DateStr(2026, 1, 1)
DateB == DateStr(2025, 12, 31)

SugPool ==
    { Sug("lease_end_date", v, st, "derived") : v \in {DateA, DateB}, st \in {70, 75} }
    \cup
    { Sug("carpet_area_sqft", v, 75, "derived") : v \in {IntV(100), IntV(103)} }

SugLists == UNION { [1..n -> SugPool] : n \in 0..MaxSugs }

SugRows ==
    { [BlankRow EXCEPT !["lease_end_date"] = d, !["carpet_area_sqft"] = c] :
        d \in {None, EmptyStr, EmptyList, DateA, DateB},
        c \in {None, IntV(0), IntV(100)} }

InitSug ==
    /\ pc = "sug_start"
    /\ row \in SugRows
    /\ row0 = row
    /\ suggestions \in SugLists
    /\ Idle

SugApply ==
    /\ pc = "sug_start"
    /\ LET res == apply_suggestions_if_missing(row, suggestions)
       IN  /\ row' = res.row
           /\ applied' = res.applied
    /\ row0' = row
    /\ pc' = "sug_applied"
    /\ UNCHANGED <<bundle, evidence, notes, suggestions, conflicts, confidences, queue, jobVars, first, library, scanVars, runVars>>

SugFind ==
    /\ pc \in {"sug_start", "sug_applied"}
    /\ conflicts' = find_conflicts(row, suggestions)
    /\ row0' = row
    /\ pc' = "sug_found"
    /\ UNCHANGED <<bundle, evidence, notes, row, suggestions, applied, confidences, queue, jobVars, first, library, scanVars, runVars>>

NextSug == SugApply \/ SugFind

SpecSug == InitSug /\ [][NextSug]_vars

(***************************************************************************)
(* Properties of SpecSug                                                   *)
(***************************************************************************)
HasSug(ss, f) == \E i \in 1..Len(ss) : ss[i].field = f

\* index of the highest-strength suggestion for f, the earliest on equal strength
BestIdx(ss, f) ==
    CHOOSE i \in 1..Len(ss) :
        /\ ss[i].field = f
        /\ \A j \in 1..Len(ss) :
              ss[j].field = f =>
                 \/ ss[j].strength < ss[i].strength
                 \/ ss[j].strength = ss[i].strength /\ j >= i

BestValue(ss, f) == ss[BestIdx(ss, f)].value

Fillable(r, ss) == { f \in FieldSet : IsEmpty(r[f]) /\ HasSug(ss, f) }

\* C1: apply_suggestions_if_missing fills exactly the fields that were
\* null/empty and have a suggestion, each with the value of its
\* highest-strength suggestion (the earliest on equal strength); every other
\* field keeps its value; 'applied' names exactly the filled fields, once each.
C1_FillMissingOnly ==
    pc = "sug_applied" =>
        /\ \A f \in FieldSet :
              IF f \in Fillable(row0, suggestions)
              THEN row[f] = BestValue(suggestions, f)
              ELSE row[f] = row0[f]
        /\ SeqFields(applied) = Fillable(row0, suggestions)
        /\ Len(applied) = Cardinality(Fillable(row0, suggestions))

\* a fill decided by the tie-break (two suggestions of equal top strength and
\* different values) next to a non-empty field that has a suggestion
C1_Witness ==
    /\ pc = "sug_applied"
    /\ IsEmpty(row0["lease_end_date"])
    /\ \E i, j \in 1..Len(suggestions) :
          /\ i < j
          /\ suggestions[i].field = "lease_end_date"
          /\ suggestions[j].field = "lease_end_date"
          /\ suggestions[i].strength = suggestions[j].strength
          /\ suggestions[i].value # suggestions[j].value
          /\ i = BestIdx(suggestions, "lease_end_date")
    /\ ~IsEmpty(row0["carpet_area_sqft"])
    /\ HasSug(suggestions, "carpet_area_sqft")
    /\ BestValue(suggestions, "carpet_area_sqft") # row0["carpet_area_sqft"]

\* C8: find_conflicts never flags a null/empty field or a field without a
\* suggestion, leaves the row as it was, reports a field at most once, and
\* flags a date field holding a date string exactly when that string differs
\* from the value of the field's highest-strength suggestion (the first on
\* equal strength).
C8_ConflictScope ==
    pc = "sug_found" =>
        /\ row = row0
        /\ \A i \in 1..Len(conflicts) :
              /\ ~IsEmpty(row[conflicts[i].field])
              /\ HasSug(suggestions, conflicts[i].field)
        /\ \A i, j \in 1..Len(conflicts) :
              conflicts[i].field = conflicts[j].field => i = j
        /\ \A f \in FieldSet :
              (EndsWithDate(f) /\ row[f].k = "str" /\ HasSug(suggestions, f)) =>
                 ((f \in SeqFields(conflicts)) <=> (row[f] # BestValue(suggestions, f)))

\* a date conflict although a suggestion of lower or equal strength matches
C8_Witness ==
    /\ pc = "sug_found"
    /\ "lease_end_date" \in SeqFields(conflicts)
    /\ \E i \in 1..Len(suggestions) :
          /\ suggestions[i].field = "lease_end_date"
          /\ suggestions[i].value = row["lease_end_date"]
    /\ IsEmpty(row["carpet_area_sqft"])
    /\ HasSug(suggestions, "carpet_area_sqft")

(***************************************************************************)
(* SpecApprox: find_conflicts on a numeric field                           *)
(***************************************************************************)
NumVals ==
    { IntV(0), Num(-1, 2000000), Num(1, 1000000), Num(1, 500000),
      IntV(49), IntV(50), IntV(51), IntV(100), IntV(102), IntV(103) }

MaxNumSugs == 2

ApxPool == { Sug("carpet_area_sqft", v, st, "derived") : v \in NumVals, st \in {55, 70} }

InitApprox ==
    /\ pc = "apx_start"
    /\ \E c \in NumVals : row = [BlankRow EXCEPT !["carpet_area_sqft"] = c]
    /\ row0 = row
    /\ suggestions \in UNION { [1..n -> ApxPool] : n \in 1..MaxNumSugs }
    /\ Idle

ApxFind ==
    /\ pc = "apx_start"
    /\ conflicts' = find_conflicts(row, suggestions)
    /\ pc' = "apx_found"
    /\ UNCHANGED <<bundle, evidence, notes, row0, row, suggestions, applied,
                   confidences, queue, jobVars, first, library, scanVars, runVars>>

NextApprox == ApxFind

SpecApprox == InitApprox /\ [][NextApprox]_vars

\* |x - y| as the integer numerator over the common denominator CommonDen(x, y)
CommonDen(x, y) == (x.b \div GCD(x.b, y.b)) * y.b
DiffNum(x, y) ==
    Abs(x.a * (CommonDen(x, y) \div x.b) - y.a * (CommonDen(x, y) \div y.b))
MaxAbsNum(x, y) ==
    LET p == Abs(x.a) * (CommonDen(x, y) \div x.b)
        q == Abs(y.a) * (CommonDen(x, y) \div y.b)
    IN  IF p >= q THEN p ELSE q

\* |x - y| <= 0.02 * max(|x|, |y|)   (50 * D <= M for integers D, M)
Within2Pct(x, y) == DiffNum(x, y) <= MaxAbsNum(x, y) \div 50
\* |x - y| > 1e-6
BeyondAbsTol(x, y) ==
    DiffNum(x, y) # 0 /\ (CommonDen(x, y) \div DiffNum(x, y)) < 1000000

\* C7: on a numeric field find_conflicts reports no conflict when the current
\* value and the best suggestion differ by at most 2% relative, and reports a
\* conflict when they differ by more than 2% relative and by more than 1e-6.
C7_TwoPercent ==
    pc = "apx_found" =>
        LET f == "carpet_area_sqft"
            cur == row[f]
            best == BestValue(suggestions, f)
        IN  /\ Within2Pct(cur, best) => f \notin SeqFields(conflicts)
            /\ (~Within2Pct(cur, best) /\ BeyondAbsTol(cur, best))
                  => f \in SeqFields(conflicts)

\* the boundary case: exactly 2% apart (49 against 50) and not flagged, with a
\* weaker suggestion that is far off
C7_Witness ==
    /\ pc = "apx_found"
    /\ row["carpet_area_sqft"] = IntV(49)
    /\ BestValue(suggestions, "carpet_area_sqft") = IntV(50)
    /\ Len(suggestions) = 2
    /\ \E i \in 1..2 : suggestions[i].value = IntV(103)
    /\ conflicts = << >>

(***************************************************************************)
(* Spec: one pass of parse_fields.py (extract_row) followed by             *)
(* validate_and_fill.py (main) over an anchor bundle                       *)
(***************************************************************************)
H(val, sc) == Hit(val, sc, None, FALSE, None, None)
RatioHit(r) == Hit(None, 0, r, FALSE, None, None)

StartOpts == { << >>, << H(DateStr(2023, 1, 1), 30) >>, << H(DateStr(2023, 3, 5), 30) >>,
               << H(DateStr(2023, 1, 31), 10) >> }
TenureVals == { None, IntV(36), IntV(1) }
EndOpts == { << >>, << H(DateStr(2026, 1, 1), 30) >>, << H(DateStr(2026, 6, 1), 30) >> }
CarpetOpts == { << >>, << H(IntV(9000), 45) >> }
SbaOpts == { << >>, << H(IntV(9000), 45) >>, << H(IntV(12000), 45) >>,
             << H(IntV(8000), 45) >> }
\* where a ratio clause sits (an extra hit of that field) and what it says
RatioOpts ==
    { [at |-> "none", r |-> None],
      [at |-> "carpet_area_sqft", r |-> Num(75, 100)],
      [at |-> "super_builtup_area_sqft", r |-> Num(75, 100)],
      [at |-> "carpet_area_sqft", r |-> Num(99, 100)],
      [at |-> "carpet_area_sqft", r |-> IntV(1)],
      [at |-> "carpet_area_sqft", r |-> Num(110, 100)],
      [at |-> "carpet_area_sqft", r |-> Num(1228, 100)] }
RentOpts == { << >>, << H(IntV(720000), 50) >> }
\* both parking counts stated in one snippet, found under the 2-wheeler field
ParkingOpts == { << >>, << Hit(None, 0, None, FALSE, IntV(2), IntV(5)) >> }

Bundles ==
    { [EmptyBundle EXCEPT
          !["lease_start_date"] = st,
          !["lease_tenure_months"] =
              IF tv = None THEN << >> ELSE << Hit(tv, 35, None, same, None, None) >>,
          !["lease_end_date"] = en,
          !["carpet_area_sqft"] =
              IF ra.at = "carpet_area_sqft" THEN ca \o << RatioHit(ra.r) >> ELSE ca,
          !["super_builtup_area_sqft"] =
              IF ra.at = "super_builtup_area_sqft" THEN sb \o << RatioHit(ra.r) >> ELSE sb,
          !["monthly_rent_rs"] = re,
          !["parking_2w_included"] = pk] :
        st \in StartOpts, tv \in TenureVals, same \in BOOLEAN, en \in EndOpts,
        ca \in CarpetOpts, sb \in SbaOpts, ra \in RatioOpts, re \in RentOpts,
        pk \in ParkingOpts }

Init ==
    /\ pc = "anchored"
    /\ bundle \in Bundles
    /\ evidence = NoEvidence
    /\ notes = << >>
    /\ row0 = BlankRow
    /\ row = BlankRow
    /\ suggestions = << >>
    /\ applied = << >>
    /\ conflicts = << >>
    /\ confidences = NoConfidence
    /\ queue = << >>
    /\ NoJob
    /\ first = NoFirst
    /\ library = FIELD_ANCHORS
    /\ NoScan
    /\ NoRun

\* parse_fields.py main: extract_row(bundle)
Extract ==
    /\ pc = "anchored"
    /\ LET x == extract_row(bundle)
       IN  /\ row' = x.row
           /\ evidence' = x.evidence
           /\ notes' = x.notes
    /\ row0' = row
    /\ pc' = "extracted"
    /\ UNCHANGED <<bundle, suggestions, applied, conflicts, confidences, queue, jobVars, first, library, scanVars, runVars>>

\* validate_and_fill.py main, STEP 1: the suggestions
Derive ==
    /\ pc = "extracted"
    /\ suggestions' = suggest_dates(row) \o suggest_numeric(row)
    /\ pc' = "derived"
    /\ UNCHANGED <<bundle, evidence, notes, row0, row, applied, conflicts,
                   confidences, queue, jobVars, first, library, scanVars, runVars>>

ApplyMissing ==
    /\ pc = "derived"
    /\ LET res == apply_suggestions_if_missing(row, suggestions)
       IN  /\ row' = res.row
           /\ applied' = res.applied
    /\ row0' = row
    /\ pc' = "applied"
    /\ UNCHANGED <<bundle, evidence, notes, suggestions, conflicts, confidences, queue, jobVars, first, library, scanVars, runVars>>

FindConflicts ==
    /\ pc = "applied"
    /\ conflicts' = find_conflicts(row, suggestions)
    /\ pc' = "checked"
    /\ UNCHANGED <<bundle, evidence, notes, row0, row, suggestions, applied,
                   confidences, queue, jobVars, first, library, scanVars, runVars>>

ComputeConfidence ==
    /\ pc = "checked"
    /\ confidences' = compute_confidence(row, evidence, applied, conflicts)
    /\ pc' = "scored"
    /\ UNCHANGED <<bundle, evidence, notes, row0, row, suggestions, applied,
                   conflicts, queue, jobVars, first, library, scanVars, runVars>>

BuildQueue ==
    /\ pc = "scored"
    /\ queue' = build_review_queue(row, confidences, conflicts)
    /\ pc' = "queued"
    /\ UNCHANGED <<bundle, evidence, notes, row0, row, suggestions, applied,
                   conflicts, confidences, jobVars, first, library, scanVars, runVars>>

Next ==
    \/ Extract
    \/ Derive
    \/ ApplyMissing
    \/ FindConflicts
    \/ ComputeConfidence
    \/ BuildQueue

Spec == Init /\ [][Next]_vars

(***************************************************************************)
(* Properties of Spec                                                      *)
(***************************************************************************)
ItemOf(f) == CHOOSE it \in { queue[i] : i \in 1..Len(queue) } : it.field = f

NoAnchorHit(f) == bundle[f] = << >>

\* C3 as stated: every field with no anchor hit ends with confidence <= 0.4
\* and review reason 'missing'.
C3_AsStated ==
    pc = "queued" =>
        \A f \in FieldSet :
            NoAnchorHit(f) => (confidences[f] <= 40 /\ ItemOf(f).reason = "missing")

\* C3 amended: a field with no anchor hit that still has no value after
\* extract and apply_missing has confidence 0.35 and reason 'missing'; one that
\* was given a value without an anchor of its own has another reason.
C3_NoAnchorNoValue ==
    pc = "queued" =>
        \A f \in FieldSet :
            NoAnchorHit(f) =>
                IF IsBlank(row[f])
                THEN confidences[f] = 35 /\ ItemOf(f).reason = "missing"
                ELSE ItemOf(f).reason # "missing"

\* both cases in one run: a field without anchor left empty, and lease_end_date
\* without anchor filled by apply_missing
C3_Witness ==
    /\ pc = "queued"
    /\ NoAnchorHit("lease_end_date")
    /\ "lease_end_date" \in SeqFields(applied)
    /\ ItemOf("lease_end_date").reason = "low_confidence"
    /\ NoAnchorHit("carpet_area_sqft")
    /\ IsBlank(row["carpet_area_sqft"])
    /\ NoAnchorHit("efficiency")
    /\ ItemOf("efficiency").reason = "ok"

\* C5: each review item's reason follows the priority conflict_with_derived,
\* missing, low_confidence (< 0.55), ok; so an 'ok' item has a value, no
\* conflict and confidence >= 0.55, and a 'conflict_with_derived' item has a
\* value and confidence <= 0.40.
C5_ReasonPriority ==
    pc = "queued" =>
        \A i \in 1..Len(queue) :
            LET it == queue[i]
                f == it.field
                inConflict == \E j \in 1..Len(conflicts) : conflicts[j].field = f
            IN  /\ it.reason =
                      IF inConflict THEN "conflict_with_derived"
                      ELSE IF IsBlank(row[f]) THEN "missing"
                      ELSE IF confidences[f] < 55 THEN "low_confidence"
                      ELSE "ok"
                /\ it.reason = "ok" =>
                      ~IsBlank(it.current_value) /\ ~inConflict /\ it.confidence >= 55
                /\ it.reason = "conflict_with_derived" =>
                      ~IsBlank(it.current_value) /\ it.confidence <= 40

\* a queue that holds all four reasons
C5_Witness ==
    /\ pc = "queued"
    /\ \A rs \in {"conflict_with_derived", "missing", "low_confidence", "ok"} :
          \E i \in 1..Len(queue) : queue[i].reason = rs

\* an ISO string read as written: YYYY-MM-DD
IsoDate(s) == Date(s.a, s.b, s.c)

\* C9 as stated: with lease_start_date s and lease_tenure_months m > 0 the
\* lease_end_date suggestions are exactly s + m months (0.75) and that date
\* minus one day (0.70), in this order, and an existing lease_end_date that
\* differs from s + m months is reported as a conflict.
C9_AsStated ==
    pc = "checked" =>
        LET s == row["lease_start_date"]
            m == row["lease_tenure_months"]
            endPlus == AddMonths(IsoDate(s), PyInt(m))
        IN  (s.k = "str" /\ IsNum(m) /\ m.a > 0) =>
                /\ SugsOf(suggestions, "lease_end_date") =
                      << Sug("lease_end_date", iso(endPlus), 75, "derived"),
                         Sug("lease_end_date", iso(MinusOneDay(endPlus)), 70, "derived") >>
                /\ (~IsEmpty(row0["lease_end_date"])
                       /\ row0["lease_end_date"] # iso(endPlus))
                      => "lease_end_date" \in SeqFields(conflicts)

\* |x - y| < 1e-6
StrictlyWithinTol(x, y) ==
    DiffNum(x, y) = 0 \/ ((CommonDen(x, y) - 1) \div DiffNum(x, y)) >= 1000000

\* C10: with an in-range ratio clause r, efficiency is r; when carpet ca was
\* extracted, super-built-up becomes ca / r exactly when the extracted one is
\* missing, or equals ca within 1e-6 with r < 0.98, or is below ca with
\* r <= 1.0, and stays as extracted otherwise; when only super-built-up was
\* extracted, carpet becomes super-built-up * r.  r = 0.75, carpet 9000 and
\* super-built-up 9000 give efficiency 0.75 and super-built-up 12000.
C10_RatioPrecedence ==
    pc = "extracted" =>
        LET r == find_ratio(bundle)
            ca == PickOf(bundle, "carpet_area_sqft").value
            ch == PickOf(bundle, "super_builtup_area_sqft").value
            replace ==
                \/ ch = None
                \/ ch # None /\ StrictlyWithinTol(ch, ca) /\ RLt(r, Num(98, 100))
                \/ ch # None /\ RLt(ch, ca) /\ RLe(r, IntV(1))
        IN  r # None =>
              /\ row["efficiency"] = r
              /\ ca # None =>
                    /\ row["carpet_area_sqft"] = ca
                    /\ row["super_builtup_area_sqft"] =
                          IF replace THEN RDiv(ca, r) ELSE ch
              /\ (ca = None /\ ch # None) =>
                    /\ row["carpet_area_sqft"] = RMul(ch, r)
                    /\ row["super_builtup_area_sqft"] = ch
              /\ (r = Num(75, 100) /\ ca = IntV(9000) /\ ch = IntV(9000)) =>
                    /\ row["efficiency"] = Num(3, 4)
                    /\ row["super_builtup_area_sqft"] = IntV(12000)

\* the equal-to-carpet override of the spec's example
C10_Witness ==
    /\ pc = "extracted"
    /\ find_ratio(bundle) = Num(75, 100)
    /\ PickOf(bundle, "carpet_area_sqft").value = IntV(9000)
    /\ PickOf(bundle, "super_builtup_area_sqft").value = IntV(9000)
    /\ row["super_builtup_area_sqft"] = IntV(12000)
    /\ row["efficiency"] = Num(75, 100)

(***************************************************************************)
(* SpecConf: compute_confidence and build_review_queue on any row,         *)
(* evidence map, applied list and conflict list                            *)
(***************************************************************************)
ConfValues == {None, EmptyStr, EmptyList, IntV(0)}
EvidenceStates == {"absent", "empty", "text"}

\* one field's inputs: value, evidence, whether applied / conflicts name it
FieldCases ==
    [val : ConfValues, ev : EvidenceStates, app : BOOLEAN, confl : BOOLEAN]

NarrowCases ==
    [val : {None, IntV(0)}, ev : {"absent", "text"}, app : {FALSE}, confl : BOOLEAN]

Mark(c, f) == IF c THEN << Sug(f, IntV(0), 75, "derived") >> ELSE << >>

InitConf ==
    /\ pc = "conf_start"
    /\ \E x \in FieldCases, y \in FieldCases, z \in NarrowCases :
         /\ row = [BlankRow EXCEPT !["city"] = x.val,
                                   !["carpet_area_sqft"] = y.val,
                                   !["ifrsd_rs"] = z.val]
         /\ evidence = [NoEvidence EXCEPT !["city"] = x.ev,
                                          !["carpet_area_sqft"] = y.ev,
                                          !["ifrsd_rs"] = z.ev]
         /\ applied = Mark(x.app, "city") \o Mark(y.app, "carpet_area_sqft")
         /\ conflicts = Mark(z.confl, "ifrsd_rs")
                          \o Mark(y.confl, "carpet_area_sqft")
                          \o Mark(x.confl, "city")
    /\ row0 = row
    /\ bundle = EmptyBundle
    /\ notes = << >>
    /\ suggestions = << >>
    /\ confidences = NoConfidence
    /\ queue = << >>
    /\ NoJob
    /\ first = NoFirst
    /\ library = FIELD_ANCHORS
    /\ NoScan
    /\ NoRun

ConfCompute ==
    /\ pc = "conf_start"
    /\ confidences' = compute_confidence(row, evidence, applied, conflicts)
    /\ pc' = "conf_scored"
    /\ UNCHANGED <<bundle, evidence, notes, row0, row, suggestions, applied, conflicts, queue, jobVars, first, library, scanVars, runVars>>

ConfQueue ==
    /\ pc = "conf_scored"
    /\ queue' = build_review_queue(row, confidences, conflicts)
    /\ pc' = "conf_queued"
    /\ UNCHANGED <<bundle, evidence, notes, row0, row, suggestions, applied, conflicts, confidences, jobVars, first, library, scanVars, runVars>>

NextConf == ConfCompute \/ ConfQueue

SpecConf == InitConf /\ [][NextConf]_vars

Named(s, f) == \E i \in 1..Len(s) : s[i].field = f

\* C4: every schema field's confidence is fixed by evidence, emptiness,
\* autofill and conflict: base 0.72 with grounding evidence text and 0.35
\* without; min(base, 0.4) for a null/empty value; otherwise base, capped at
\* 0.65 when autofilled and then at 0.40 when in conflict.  It lies in [0, 1].
C4_ConfidenceFormula ==
    pc \in {"conf_scored", "conf_queued"} =>
        /\ DOMAIN confidences = FieldSet
        /\ \A f \in FieldSet :
            LET base == IF evidence[f] = "text" THEN 72 ELSE 35
                capA == IF Named(applied, f) /\ base > 65 THEN 65 ELSE base
                capC == IF Named(conflicts, f) /\ capA > 40 THEN 40 ELSE capA
            IN  /\ confidences[f] =
                      IF row[f] \in {None, EmptyStr}
                      THEN (IF base < 40 THEN base ELSE 40)
                      ELSE capC
                /\ confidences[f] >= 0
                /\ confidences[f] <= 100

\* an autofilled field with evidence text (0.65), and one that is both
\* autofilled and in conflict (0.40), and an empty one with evidence (0.40)
C4_Witness ==
    /\ pc = "conf_scored"
    /\ Named(applied, "city") /\ ~Named(conflicts, "city")
    /\ evidence["city"] = "text" /\ confidences["city"] = 65
    /\ Named(applied, "carpet_area_sqft") /\ Named(conflicts, "carpet_area_sqft")
    /\ evidence["carpet_area_sqft"] = "text" /\ confidences["carpet_area_sqft"] = 40
    /\ row["ifrsd_rs"] = None /\ evidence["ifrsd_rs"] = "text"
    /\ confidences["ifrsd_rs"] = 40

Rank(reason) ==
    CASE reason = "conflict_with_derived" -> 0
      [] reason = "missing" -> 1
      [] reason = "low_confidence" -> 2
      [] reason = "ok" -> 3

\* C6: the queue has exactly one item per schema field, and consecutive items
\* are non-decreasing in (reason priority, confidence) with priority
\* conflict_with_derived < missing < low_confidence < ok.
C6_QueueOrder ==
    pc \in {"conf_queued", "queued"} =>
        /\ Len(queue) = 26
        /\ \A f \in FieldSet : Cardinality({ i \in 1..Len(queue) : queue[i].field = f }) = 1
        /\ \A i \in 1..(Len(queue) - 1) :
              \/ Rank(queue[i].reason) < Rank(queue[i + 1].reason)
              \/ /\ Rank(queue[i].reason) = Rank(queue[i + 1].reason)
                 /\ queue[i].confidence <= queue[i + 1].confidence

\* a queue where the confidence decides the order inside one reason: two
\* conflict items whose field order is the reverse of their confidence order
C6_Witness ==
    /\ pc = "conf_queued"
    /\ queue[1].reason = "conflict_with_derived"
    /\ queue[1].field = "ifrsd_rs"
    /\ queue[2].reason = "conflict_with_derived"
    /\ queue[2].field = "city"
    /\ queue[1].confidence < queue[2].confidence
    /\ \E i \in 1..Len(queue) : queue[i].reason = "missing"
    /\ \E i \in 1..Len(queue) : queue[i].reason = "ok"

(***************************************************************************)
(* SpecJob: one job of the backend: field edits, run requests and the      *)
(* background runs (app/backend/main.py, app/core/pipeline.py)             *)
(***************************************************************************)
\* the documents a job can be created with, each given by the anchors its
\* OCR text yields
JobBundles ==
    << [EmptyBundle EXCEPT !["city"] = << H(Text(1), 30) >>,
                           !["lease_tenure_months"] = << H(IntV(36), 35) >>],
       [EmptyBundle EXCEPT !["city"] = << H(Text(2), 30) >>] >>

\* the LLM outputs a stage-3 run can leave
LlmOutputs == { [NoLlm EXCEPT !["city"] = "llm"] }

\* field_action payloads: field, action, value
Payloads ==
    { << "city", "accept", None >>,
      << "city", "edit", Text(3) >>,
      << "city", "edit", NullWord >>,
      << "city", "clear", None >> }

InitJob ==
    /\ pc = "job_created"
    /\ bundle = EmptyBundle
    /\ evidence = NoEvidence
    /\ notes = << >>
    /\ row0 = BlankRow
    /\ row = BlankRow
    /\ suggestions = << >>
    /\ applied = << >>
    /\ conflicts = << >>
    /\ confidences = NoConfidence
    /\ queue = << >>
    /\ input \in 0..Len(JobBundles)
    /\ meta = new_job
    /\ task = "none"
    /\ ocr = 0
    /\ stage2 = NoStage2
    /\ stage3 = NoLlm
    /\ working = init_working_state(BlankRow, NullConfidence, << >>, NoLlm, "unknown")
    /\ working0 = working
    /\ first = NoFirst
    /\ library = FIELD_ANCHORS
    /\ NoScan
    /\ NoRun

dataVars == <<bundle, evidence, notes, row0, row, suggestions, applied,
              conflicts, confidences, queue, first, library, scanVars>>

extractVars == <<bundle, evidence, notes, row0, row, suggestions, applied,
                 conflicts, confidences, queue, first, library, scanVars, runVars>>

\* POST /jobs/{id}/field_action
FieldAction(p) ==
    LET field == p[1]
        action == p[2]
        value == p[3]
        old_value == working.fields[field].value
        new_value == IF action = "clear" THEN None
                     ELSE IF value # None THEN coerce_value(field, value)
                     ELSE old_value
    IN  /\ working' = [working EXCEPT
                         !.fields[field].value = new_value,
                         !.fields[field].review =
                             [status |-> "reviewed", action |-> action]]
        /\ pc' = "job_edited"
        /\ UNCHANGED <<extractVars, input, meta, task, ocr, stage2, stage3, working0>>

field_action == \E p \in Payloads : FieldAction(p)

\* POST /jobs/{id}/run
run_job ==
    /\ meta.status # "running"
    /\ meta' = [meta EXCEPT !.status = "running"]
    /\ task' = "pipeline"
    /\ pc' = "job_requested"
    /\ UNCHANGED <<extractVars, input, ocr, stage2, stage3, working, working0>>

\* POST /jobs/{id}/run_stage/{stage}
run_job_stage ==
    \E stage \in {"stage1", "stage2", "stage3"} :
        /\ meta.status # "running"
        /\ meta' = [meta EXCEPT !.status = "running"]
        /\ task' = stage
        /\ pc' = "job_requested"
        /\ UNCHANGED <<extractVars, input, ocr, stage2, stage3, working, working0>>

Job(m, o, s2, s3, w) == [meta |-> m, ocr |-> o, stage2 |-> s2, stage3 |-> s3, working |-> w]

BlankState(llm_status) ==
    init_working_state(BlankRow, NullConfidence, << >>, NoLlm, llm_status)

FromStage2(s2, s3, llm_status) ==
    LET l == _load_stage2_state(s2)
    IN  init_working_state(l.row, l.confidence, l.derived, _load_llm_state(s3), llm_status)

\* what the stage-2 scripts leave for each document
Stage2Outputs ==
    [b \in DOMAIN JobBundles |-> validate_main(extract_row(JobBundles[b]))]

MergeStage2(s2, s3, llm_status) ==
    LET l == _load_stage2_state(s2)
    IN  merge_working_state(working, l.row, l.confidence, l.derived,
                            _load_llm_state(s3), llm_status, TRUE)

\* run_pipeline: outcome o of the stage scripts, LLM output l
run_pipeline(o, l) ==
    LET b == input
        v == Stage2Outputs[b]
    IN  IF input = 0
        THEN Job([status |-> "needs_input", llm_status |-> "skipped"], 0, NoStage2, NoLlm,
                 FromStage2(NoStage2, NoLlm, "skipped"))
        ELSE CASE o = "stage1_error" ->
                    Job([meta EXCEPT !.status = "error"], 0, NoStage2, NoLlm,
                        BlankState(meta.llm_status))
               [] o = "stage2_error" ->
                    Job([meta EXCEPT !.status = "error"], b, NoStage2, NoLlm,
                        BlankState(meta.llm_status))
               [] o = "llm_unavailable" ->
                    Job([status |-> "ready_for_review", llm_status |-> "unavailable"],
                        b, v, NoLlm, FromStage2(v, NoLlm, "unavailable"))
               [] o = "stage3_error" ->
                    Job([meta EXCEPT !.status = "error"], b, v, NoLlm,
                        FromStage2(v, NoLlm, "error"))
               [] o = "success" ->
                    Job([status |-> "ready_for_review", llm_status |-> "ran"],
                        b, v, l, FromStage2(v, l, "ran"))

run_stage1(o) ==
    IF input = 0
    THEN Job([meta EXCEPT !.status = "needs_input"], 0, NoStage2, NoLlm,
             BlankState(meta.llm_status))
    ELSE IF o = "success"
    THEN Job([meta EXCEPT !.status = "stage1_complete"], input, NoStage2, NoLlm, working)
    ELSE Job([meta EXCEPT !.status = "error"], 0, NoStage2, NoLlm,
             BlankState(meta.llm_status))

run_stage2(o) ==
    IF ocr = 0
    THEN Job([meta EXCEPT !.status = "error"], ocr, NoStage2, NoLlm, working)
    ELSE IF o = "success"
    THEN LET v == Stage2Outputs[ocr]
         IN  Job([meta EXCEPT !.status = "ready_for_review"], ocr, v, NoLlm,
                 MergeStage2(v, NoLlm, meta.llm_status))
    ELSE Job([meta EXCEPT !.status = "error"], ocr, NoStage2, NoLlm,
             BlankState(meta.llm_status))

run_stage3(o, l) ==
    IF ~stage2.has
    THEN Job([meta EXCEPT !.status = "error"], ocr, stage2, NoLlm, working)
    ELSE CASE o = "llm_unavailable" ->
                Job([status |-> "ready_for_review", llm_status |-> "unavailable"],
                    ocr, stage2, NoLlm, MergeStage2(stage2, NoLlm, "unavailable"))
           [] o = "success" ->
                Job([status |-> "ready_for_review", llm_status |-> "ran"],
                    ocr, stage2, l, MergeStage2(stage2, l, "ran"))
           [] OTHER ->
                Job([status |-> "error", llm_status |-> "error"],
                    ocr, stage2, NoLlm, working)

\* the background task ends and leaves j
Finish(j) ==
    /\ meta' = j.meta
    /\ ocr' = j.ocr
    /\ stage2' = j.stage2
    /\ stage3' = j.stage3
    /\ working' = j.working
    /\ working0' = working
    /\ pc' = IF pc = "job_requested" THEN "job_ran_" \o task ELSE "job_ran_after_edit"
    /\ task' = "none"
    /\ UNCHANGED <<extractVars, input>>

RunPipeline ==
    /\ task = "pipeline"
    /\ \E o \in {"stage1_error", "stage2_error", "llm_unavailable", "stage3_error", "success"},
          l \in LlmOutputs :
         Finish(run_pipeline(o, l))

RunStage1 ==
    /\ task = "stage1"
    /\ \E o \in {"error", "success"} : Finish(run_stage1(o))

RunStage2 ==
    /\ task = "stage2"
    /\ \E o \in {"error", "success"} : Finish(run_stage2(o))

RunStage3 ==
    /\ task = "stage3"
    /\ \E o \in {"llm_unavailable", "error", "success"}, l \in LlmOutputs :
         Finish(run_stage3(o, l))

NextJob ==
    \/ field_action
    \/ run_job
    \/ run_job_stage
    \/ RunPipeline
    \/ RunStage1
    \/ RunStage2
    \/ RunStage3

SpecJob == InitJob /\ [][NextJob]_vars

\* C2 as stated: a field marked reviewed by field_action keeps its value and
\* its review status 'reviewed' across a later re-run of the job by run_stage2,
\* run_stage3 or run_pipeline, whether the run succeeds or fails.
C2_AsStated ==
    pc \in {"job_ran_stage2", "job_ran_stage3", "job_ran_pipeline"} =>
        \A f \in FieldSet :
            working0.fields[f].review.status = "reviewed" =>
                /\ working.fields[f].value = working0.fields[f].value
                /\ working.fields[f].review.status = "reviewed"

(***************************************************************************)
(* SpecExtract: extract_row alone, over bundles that vary the areas, the   *)
(* ratio clauses, the rent and the tenure / lock-in hits                   *)
(***************************************************************************)
ExCarpet == { << >>, << H(IntV(0), 45) >>, << H(IntV(9000), 45) >> }
ExSba == { << >>, << H(IntV(0), 45) >>, << H(IntV(9000), 45) >>,
           << H(IntV(12000), 45) >>, << H(IntV(8000), 45) >> }
\* the ratio clauses found in the area snippets, in candidate order
ExRatios ==
    { << >>,
      << RatioHit(Num(75, 100)) >>,
      << RatioHit(Num(1228, 100)) >>,
      << RatioHit(Num(1228, 100)), RatioHit(Num(75, 100)) >>,
      << RatioHit(Num(5, 100)) >>,
      << RatioHit(Num(120, 100)) >>,
      << RatioHit(Num(4, 100)) >>,
      << RatioHit(Num(121, 100)) >>,
      << RatioHit(Num(110, 100)) >> }
ExTenure == { None, IntV(36), IntV(24) }
ExLockIn == { None, IntV(36) }

DurationHits(v) == IF v = None THEN << >> ELSE << H(v, 35) >>
\* a snippet stating that lock-in equals the lease term, with no duration
SameClauseHits(same) ==
    IF same THEN << Hit(None, 0, None, TRUE, None, None) >> ELSE << >>

ExBundles ==
    { [EmptyBundle EXCEPT
          !["carpet_area_sqft"] = IF at = "carpet_area_sqft" THEN ca \o rs ELSE ca,
          !["super_builtup_area_sqft"] =
              IF at = "super_builtup_area_sqft" THEN sb \o rs ELSE sb,
          !["monthly_rent_rs"] = re,
          !["lease_tenure_months"] = DurationHits(tv),
          !["lock_in_period"] = DurationHits(lv) \o SameClauseHits(same)] :
        ca \in ExCarpet, sb \in ExSba, rs \in ExRatios,
        at \in {"carpet_area_sqft", "super_builtup_area_sqft"},
        re \in RentOpts, tv \in ExTenure, lv \in ExLockIn, same \in BOOLEAN }

InitExtract ==
    /\ pc = "ex_start"
    /\ bundle \in ExBundles
    /\ evidence = NoEvidence
    /\ notes = << >>
    /\ row0 = BlankRow
    /\ row = BlankRow
    /\ suggestions = << >>
    /\ applied = << >>
    /\ conflicts = << >>
    /\ confidences = NoConfidence
    /\ queue = << >>
    /\ NoJob
    /\ first = NoFirst
    /\ library = FIELD_ANCHORS
    /\ NoScan
    /\ NoRun

ExExtract ==
    /\ pc = "ex_start"
    /\ LET x == extract_row(bundle)
       IN  /\ row' = x.row
           /\ evidence' = x.evidence
           /\ notes' = x.notes
    /\ row0' = row
    /\ pc' = "ex_done"
    /\ UNCHANGED <<bundle, suggestions, applied, conflicts, confidences, queue, jobVars, first, library, scanVars, runVars>>

NextExtract == ExExtract

SpecExtract == InitExtract /\ [][NextExtract]_vars

\* the ratios stated in the area snippets, carpet hits first
StatedRatios ==
    LET cs == bundle["carpet_area_sqft"] \o bundle["super_builtup_area_sqft"]
        q == SelectSeq(cs, LAMBDA h : h.ratio # None)
    IN  [i \in 1..Len(q) |-> q[i].ratio]

InRange(r) == RLe(Num(5, 100), r) /\ RLe(r, Num(120, 100))

PickedCarpet == PickOf(bundle, "carpet_area_sqft").value
PickedSba == PickOf(bundle, "super_builtup_area_sqft").value

\* what the row holds when a ratio r was used
UsesRatio(r) ==
    /\ row["efficiency"] = r
    /\ row["carpet_area_sqft"] \in
          {PickedCarpet} \cup (IF PickedSba = None THEN {} ELSE {RMul(PickedSba, r)})
    /\ row["super_builtup_area_sqft"] \in
          {PickedSba} \cup (IF PickedCarpet = None THEN {} ELSE {RDiv(PickedCarpet, r)})

AreasAsPicked ==
    /\ row["carpet_area_sqft"] = PickedCarpet
    /\ row["super_builtup_area_sqft"] = PickedSba

C12_AsStated ==
    pc = "ex_done" =>
        IF row["monthly_rent_rs"] # None /\ row["super_builtup_area_sqft"] # None
        THEN /\ row["rate_per_sqft_rs"] # None
             /\ RMul(row["rate_per_sqft_rs"], row["super_builtup_area_sqft"])
                   = row["monthly_rent_rs"]
        ELSE row["rate_per_sqft_rs"] = None

\* C12 amended: rate_per_sqft_rs equals monthly_rent_rs divided by the row's
\* super_builtup_area_sqft when both are present and the area is not zero,
\* and is null otherwise.
C12_RateFormula ==
    pc = "ex_done" =>
        row["rate_per_sqft_rs"] =
            IF /\ row["monthly_rent_rs"] # None
               /\ row["super_builtup_area_sqft"] # None
               /\ row["super_builtup_area_sqft"] # IntV(0)
            THEN RDiv(row["monthly_rent_rs"], row["super_builtup_area_sqft"])
            ELSE None

\* the chargeable area was overridden by the ratio and the rate follows it
C12_Witness ==
    /\ pc = "ex_done"
    /\ PickedSba = IntV(9000)
    /\ row["super_builtup_area_sqft"] = IntV(12000)
    /\ row["carpet_area_sqft"] = IntV(9000)
    /\ row["monthly_rent_rs"] = IntV(720000)
    /\ row["rate_per_sqft_rs"] = IntV(60)

PickedTenure == PickOf(bundle, "lease_tenure_months").value
PickedLockIn == PickOf(bundle, "lock_in_period").value
SameClause ==
    \E f \in {"lock_in_period", "lease_tenure_months"} :
        \E i \in 1..Len(bundle[f]) : bundle[f][i].same
HasNote(n) == \E i \in 1..Len(notes) : notes[i] = n
SameAsNotes == {"same_as_lock_in", "same_as_tenure", "same_as_inconsistent"}

\* C13: with a same-as clause, if exactly one of tenure and lock-in was
\* picked the missing one is set to the known value and a note is recorded;
\* if both were picked and differ both stay and an inconsistency note is
\* recorded; without a same-as clause neither value is changed.
C13_SameAs ==
    pc = "ex_done" =>
        /\ (SameClause /\ PickedTenure # None /\ PickedLockIn = None) =>
              /\ row["lease_tenure_months"] = PickedTenure
              /\ row["lock_in_period"] = PickedTenure
              /\ HasNote("same_as_lock_in")
        /\ (SameClause /\ PickedLockIn # None /\ PickedTenure = None) =>
              /\ row["lock_in_period"] = PickedLockIn
              /\ row["lease_tenure_months"] = PickedLockIn
              /\ HasNote("same_as_tenure")
        /\ (SameClause /\ PickedTenure # None /\ PickedLockIn # None
               /\ PickedTenure # PickedLockIn) =>
              /\ row["lease_tenure_months"] = PickedTenure
              /\ row["lock_in_period"] = PickedLockIn
              /\ HasNote("same_as_inconsistent")
        /\ ~SameClause =>
              /\ row["lease_tenure_months"] = PickedTenure
              /\ row["lock_in_period"] = PickedLockIn
              /\ \A n \in SameAsNotes : ~HasNote(n)

\* the lock-in was filled from the tenure; and (in another run) both were
\* picked, differ, and were left alone
C13_Witness ==
    /\ pc = "ex_done"
    /\ SameClause
    /\ \/ /\ PickedTenure = IntV(24)
          /\ PickedLockIn = None
          /\ row["lock_in_period"] = IntV(24)
       \/ /\ PickedTenure = IntV(24)
          /\ PickedLockIn = IntV(36)
          /\ row["lock_in_period"] = IntV(36)
          /\ HasNote("same_as_inconsistent")

\* the keys present in the evidence dict
EvidenceKeysOf(ev) == { k \in DOMAIN ev : ev[k] # "absent" }

\* C14 as stated: for every anchor bundle extract_row returns a row whose
\* key set is exactly the 26 schema field names and an evidence map whose
\* keys are schema field names only.
C14_AsStated ==
    pc = "ex_done" =>
        /\ extract_row_keys = FieldSet
        /\ EvidenceKeysOf(evidence) \subseteq FieldSet

(***************************************************************************)
(* SpecTwice: the pipeline run twice on one bundle; the second run starts  *)
(* with everything the first one left behind                               *)
(***************************************************************************)
\* a line naming a month and a year only ('Lease commencement: March 2023')
MonthYear(y, m) == V("ym", y, m, 0)

\* try_parse_date_from_line: dateutil's parse(line, dayfirst=True, fuzzy=True)
\* without a default fills what the line does not state from
\* datetime.now(); a missing day becomes today's day of the month, clipped to
\* the length of the stated month.  A complete date does not read the clock.
try_parse_date_from_line(v, today) ==
    IF v.k = "ym" THEN DateStr(v.a, v.b, Min(today, DaysIn(v.a, v.b))) ELSE v

\* the bundle as the date picker reads it on a given day
AtClock(b, today) ==
    [f \in DOMAIN b |->
        IF f \in {"lease_start_date", "lease_end_date", "rent_start_date",
                  "handover_date", "lock_in_end_date"}
        THEN [i \in 1..Len(b[f]) |->
                 [b[f][i] EXCEPT !.val = try_parse_date_from_line(b[f][i].val, today)]]
        ELSE b[f]]

\* the day of the month of datetime.now() when a run starts
ClockDays == {3, 4, 31}

TwiceBundles ==
    { [EmptyBundle EXCEPT
          !["lease_start_date"] = st,
          !["lease_tenure_months"] = DurationHits(tv),
          !["lease_end_date"] = en,
          !["carpet_area_sqft"] =
              IF r = None THEN ca ELSE ca \o << RatioHit(r) >>,
          !["super_builtup_area_sqft"] = sb,
          !["monthly_rent_rs"] = re] :
        st \in StartOpts \cup { << H(MonthYear(2023, 4), 30) >> },
        tv \in {None, IntV(36)}, en \in EndOpts,
        ca \in CarpetOpts, sb \in { << >>, << H(IntV(12000), 45) >> },
        r \in {None, Num(75, 100), Num(99, 100)}, re \in RentOpts }

InitTwice ==
    /\ pc = "anchored"
    /\ bundle \in TwiceBundles
    /\ evidence = NoEvidence
    /\ notes = << >>
    /\ row0 = BlankRow
    /\ row = BlankRow
    /\ suggestions = << >>
    /\ applied = << >>
    /\ conflicts = << >>
    /\ confidences = NoConfidence
    /\ queue = << >>
    /\ NoJob
    /\ first = NoFirst
    /\ library = FIELD_ANCHORS
    /\ NoScan
    /\ NoRun

\* parse_fields.py main, started on some day
ExtractAt ==
    /\ pc = "anchored"
    /\ \E today \in ClockDays :
          LET x == extract_row(AtClock(bundle, today))
          IN  /\ row' = x.row
              /\ evidence' = x.evidence
              /\ notes' = x.notes
    /\ row0' = row
    /\ pc' = "extracted"
    /\ UNCHANGED <<bundle, suggestions, applied, conflicts, confidences, queue,
                   jobVars, first, library, scanVars, runVars>>

\* the two scripts are started again on the same lease_anchors.json; the
\* files of the first run are still in data/outputs
Rerun ==
    /\ pc = "queued"
    /\ ~first.done
    /\ first' = [done |-> TRUE, row |-> row, confidences |-> confidences,
                 queue |-> queue]
    /\ pc' = "anchored"
    /\ UNCHANGED <<bundle, evidence, notes, row0, row, suggestions, applied,
                   conflicts, confidences, queue, jobVars, library, scanVars, runVars>>

NextTwice ==
    \/ ExtractAt
    \/ Derive
    \/ ApplyMissing
    \/ FindConflicts
    \/ ComputeConfidence
    \/ BuildQueue
    \/ Rerun

SpecTwice == InitTwice /\ [][NextTwice]_vars

\* C15 as stated: the second run of extract -> derive -> apply_missing ->
\* find_conflicts -> compute_confidence -> build_queue on the same bundle
\* ends with the row, the confidence map and the review queue (in the same
\* order) of the first run.
C15_AsStated ==
    (pc = "queued" /\ first.done) =>
        /\ row = first.row
        /\ confidences = first.confidences
        /\ queue = first.queue

\* the same, for the bundles whose date lines state complete dates
C15_CompleteDates ==
    (pc = "queued" /\ first.done
        /\ \A i \in 1..Len(bundle["lease_start_date"]) :
              bundle["lease_start_date"][i].val.k # "ym") =>
        /\ row = first.row
        /\ confidences = first.confidences
        /\ queue = first.queue

(***************************************************************************)
(* SpecAnchors: loading extract/anchors.py with an edited pattern library  *)
(***************************************************************************)
\* the fields whose entry is varied
EditedFields == {"city", "lease_start_date", "carpet_area_sqft", "ifrsd_rs"}

\* a library: some fields dropped, some left with an empty list, possibly an
\* entry that is not a schema field
Libraries ==
    { [f \in (FieldSet \ dropped) \cup more |->
          IF f \in emptied THEN << >> ELSE << "pattern" >>] :
        dropped \in SUBSET EditedFields, emptied \in SUBSET EditedFields,
        more \in { {}, {"landlord_name"} } }

InitAnchors ==
    /\ pc = "lib_start"
    /\ bundle = EmptyBundle
    /\ evidence = NoEvidence
    /\ notes = << >>
    /\ row0 = BlankRow
    /\ row = BlankRow
    /\ suggestions = << >>
    /\ applied = << >>
    /\ conflicts = << >>
    /\ confidences = NoConfidence
    /\ queue = << >>
    /\ NoJob
    /\ first = NoFirst
    /\ library \in Libraries
    /\ NoScan
    /\ NoRun

\* the module-level check of anchors.py: raise ValueError if some field of
\* FIELDS is not a key of FIELD_ANCHORS; extra keys only print a warning
LoadAnchors ==
    /\ pc = "lib_start"
    /\ LET missing == { f \in FieldSet : f \notin DOMAIN library }
       IN  pc' = IF missing # {} THEN "lib_raised" ELSE "lib_loaded"
    /\ UNCHANGED <<bundle, evidence, notes, row0, row, suggestions, applied,
                   conflicts, confidences, queue, jobVars, first, library, scanVars, runVars>>

NextAnchors == LoadAnchors

SpecAnchors == InitAnchors /\ [][NextAnchors]_vars

\* the schema fields with zero registered patterns
ZeroPatternFields ==
    { f \in FieldSet : f \notin DOMAIN library \/ library[f] = << >> }

\* C16 as stated: loading raises whenever some schema field has zero
\* patterns (absent from the mapping or mapped to an empty list) and succeeds
\* only when every schema field has at least one pattern.
C16_AsStated ==
    /\ pc = "lib_raised" => ZeroPatternFields # {}
    /\ pc = "lib_loaded" => ZeroPatternFields = {}

(***************************************************************************)
(* Money pickers, line by line (extract/parse_fields.py), and the snippet  *)
(* score of extract/evidence_ranker.py.  A line is given by what the       *)
(* regular expressions of the two files find in it.                        *)
(***************************************************************************)
\* clause : the number of a leading clause marker ('6.' or '10)'), 0 if none
\* cur    : RS_UNIT_RE matches (a currency token)
\* money  : MONEY_RE matches (a currency token followed by a number)
\* amounts: the numbers NUM_RE finds after the clause marker
\* ctx    : the context words of the pickers found in the line
\* sqft   : SQFT_UNIT_RE matches;  rate : KW_RATE_PHRASE matches
\* nkw    : how many keywords of the ranker's kw_map entry occur (once each)
\* def    : a ratio definition of DEF_PATTERNS occurs
\* len    : "short" (< 25 characters), "mid" or "long" (> 520)
Line(clause, cur, money, amounts, ctx, sqft, rate, nkw, def, len) ==
    [clause |-> clause, cur |-> cur, money |-> money, amounts |-> amounts,
     ctx |-> ctx, sqft |-> sqft, rate |-> rate, nkw |-> nkw, def |-> def,
     len |-> len]

\* NUM_RE.finditer over the whole line: the digits of a clause marker are
\* numbers like any other
extract_all_numbers(ln) ==
    (IF ln.clause > 0 THEN << IntV(ln.clause) >> ELSE << >>) \o ln.amounts

RECURSIVE MaxOf(_)
MaxOf(ns) ==
    IF Len(ns) = 1 THEN ns[1] ELSE RMax(ns[1], MaxOf(Tail(ns)))

KwDeposit(ln) == ln.ctx \cap {"ifrsd", "security deposit", "interest free"} # {}
KwRent(ln) == "rent" \in ln.ctx
KwMonthly(ln) == "monthly" \in ln.ctx
KwStamp(ln) == "stamp duty" \in ln.ctx

\* the index of a line is kept in the Pick (its evidence)
LinePick(val, sc, i) == [value |-> val, score |-> sc, line |-> i]

LinePicks(lines, Ok(_), Val(_), Sc(_)) ==
    LET idx == SelectSeq([i \in 1..Len(lines) |-> i], LAMBDA i : Ok(lines[i]))
    IN  [k \in 1..Len(idx) |->
            LinePick(Val(lines[idx[k]]), Sc(lines[idx[k]]), idx[k])]

pick_monthly_rent(lines) ==
    LET Ok(ln) == /\ KwRent(ln) /\ KwMonthly(ln)
                  /\ ~KwDeposit(ln)
                  /\ ~(ln.sqft /\ ln.rate)
                  /\ extract_all_numbers(ln) # << >>
        Val(ln) == MaxOf(extract_all_numbers(ln))
        Sc(ln) == 40 + (IF ln.cur THEN 10 ELSE 0)
    IN  best_pick(LinePicks(lines, Ok, Val, Sc))

pick_generic_money(field, lines) ==
    LET Ok(ln) == /\ extract_all_numbers(ln) # << >>
                  /\ field = "monthly_cam_rs" =>
                        ("cam" \in ln.ctx \/ "maintenance" \in ln.ctx)
                  /\ field = "parking_charges_rs" =>
                        ("parking" \in ln.ctx /\ "charges" \in ln.ctx)
                  /\ field = "stamp_duty_rs" => KwStamp(ln)
                  /\ ~ln.sqft
        Val(ln) == MaxOf(extract_all_numbers(ln))
        Sc(ln) == 20 + (IF ln.cur THEN 10 ELSE 0)
    IN  best_pick(LinePicks(lines, Ok, Val, Sc))

BigDeposit == IntV(50000)

pick_ifrsd(lines) ==
    LET Ok(ln) == /\ KwDeposit(ln)
                  /\ ~(ln.sqft /\ ln.rate)
                  /\ extract_all_numbers(ln) # << >>
        Val(ln) == LET nums == extract_all_numbers(ln)
                       big == SelectSeq(nums, LAMBDA x : RLe(BigDeposit, x))
                   IN  IF big # << >> THEN MaxOf(big) ELSE MaxOf(nums)
        Sc(ln) == 40 + (IF "ifrsd" \in ln.ctx THEN 20 ELSE 0)
                     + (IF "security deposit" \in ln.ctx THEN 15 ELSE 0)
                     + (IF ln.cur THEN 5 ELSE 0)
    IN  best_pick(LinePicks(lines, Ok, Val, Sc))

\* extract_row, money part: which picker serves which field
pick_money(field, lines) ==
    CASE field = "monthly_rent_rs" -> pick_monthly_rent(lines)
      [] field = "ifrsd_rs" -> pick_ifrsd(lines)
      [] OTHER -> pick_generic_money(field, lines)

\* evidence_ranker.score_snippet for a money field, in hundredths
score_snippet(field, ln) ==
    LET has_num == extract_all_numbers(ln) # << >>
        kw == ln.nkw * (200 + 15)
        unit == IF field \in MONEY_FIELDS
                THEN (IF ln.money THEN 500 ELSE -200)
                     + (IF ln.clause > 0 /\ ~ln.money THEN -600 ELSE 0)
                ELSE 0
        defn == IF ln.def THEN 600 ELSE 0
        qual == CASE ln.len = "short" -> -100
                  [] ln.len = "long" -> -50
                  [] OTHER -> 0
        prox == IF ln.nkw > 0 /\ has_num THEN 100 ELSE 0
    IN  kw + unit + defn + qual + prox

(***************************************************************************)
(* SpecMoney: the money part of extract_row on bundles given line by line  *)
(***************************************************************************)
\* '6. Security Deposit shall be refundable.'
ClauseDeposit(nkw) ==
    Line(6, FALSE, FALSE, << >>, {"security deposit"}, FALSE, FALSE, nkw, FALSE, "mid")

MoneyLines ==
    { ClauseDeposit(1), ClauseDeposit(4),
      \* '6. Stamp duty shall be borne by the Lessee.'
      Line(6, FALSE, FALSE, << >>, {"stamp duty"}, FALSE, FALSE, 1, FALSE, "mid"),
      \* '6. Monthly rent shall be payable in advance.'
      Line(6, FALSE, FALSE, << >>, {"rent", "monthly"}, FALSE, FALSE, 1, FALSE, "mid"),
      \* '6. CAM and parking charges shall be payable.'
      Line(6, FALSE, FALSE, << >>, {"cam", "parking", "charges"}, FALSE, FALSE, 1,
           FALSE, "mid"),
      \* 'Security Deposit shall be refundable.'
      Line(0, FALSE, FALSE, << >>, {"security deposit"}, FALSE, FALSE, 1, FALSE, "mid"),
      \* 'IFRSD of Rs. 4,320,000'
      Line(0, TRUE, TRUE, << IntV(4320000) >>, {"ifrsd"}, FALSE, FALSE, 1, FALSE,
           "short"),
      \* 'Monthly rent of Rs. 720,000 per month, parking charges and CAM included'
      Line(0, TRUE, TRUE, << IntV(720000) >>,
           {"rent", "monthly", "cam", "parking", "charges"}, FALSE, FALSE, 2, FALSE,
           "mid"),
      \* '7. Stamp duty of Rs. 5,000 shall be borne by the Lessee.'
      Line(7, TRUE, TRUE, << IntV(5000) >>, {"stamp duty"}, FALSE, FALSE, 1, FALSE,
           "mid") }

MaxLines == 2

MoneyBundles ==
    { [EmptyBundle EXCEPT ![f] = ls] :
        f \in MONEY_FIELDS,
        ls \in UNION { [1..n -> MoneyLines] : n \in 1..MaxLines } }

InitMoney ==
    /\ pc = "money_start"
    /\ bundle \in MoneyBundles
    /\ evidence = NoEvidence
    /\ notes = << >>
    /\ row0 = BlankRow
    /\ row = BlankRow
    /\ suggestions = << >>
    /\ applied = << >>
    /\ conflicts = << >>
    /\ confidences = NoConfidence
    /\ queue = << >>
    /\ NoJob
    /\ first = NoFirst
    /\ library = FIELD_ANCHORS
    /\ NoScan
    /\ NoRun

\* extract_row, lines 662-677: every money field gets the value of its Pick
PickMoney ==
    /\ pc = "money_start"
    /\ row' = [f \in FieldSet |->
                  IF f \in MONEY_FIELDS THEN pick_money(f, bundle[f]).value
                  ELSE row[f]]
    /\ evidence' = [k \in EvidenceKeys |->
                      IF k \in MONEY_FIELDS /\ pick_money(k, bundle[k]) # NoPick
                      THEN "text" ELSE evidence[k]]
    /\ row0' = row
    /\ pc' = "money_done"
    /\ UNCHANGED <<bundle, notes, suggestions, applied, conflicts, confidences,
                   queue, jobVars, first, library, scanVars, runVars>>

NextMoney == PickMoney

SpecMoney == InitMoney /\ [][NextMoney]_vars

\* a line that begins with a clause number and carries no currency token
ClauseNoCurrency(ln) == ln.clause > 0 /\ ~ln.cur /\ ~ln.money

\* C17 as stated: a line that begins with a clause number and has no currency
\* token scores negatively for every money field, is never the Pick of a
\* money field, and when every candidate line is such a line the field stays
\* null.
C17_AsStated ==
    pc = "money_done" =>
        \A f \in MONEY_FIELDS :
            /\ \A i \in 1..Len(bundle[f]) :
                  ClauseNoCurrency(bundle[f][i]) =>
                      /\ \A g \in MONEY_FIELDS : score_snippet(g, bundle[f][i]) < 0
                      /\ LET p == pick_money(f, bundle[f])
                         IN  p = NoPick \/ p.line # i
            /\ (\A i \in 1..Len(bundle[f]) : ClauseNoCurrency(bundle[f][i])) =>
                  row[f] = None

\* the same, the pickers only: the Pick and the value of the field
C17_NeverPicked ==
    pc = "money_done" =>
        \A f \in MONEY_FIELDS :
            /\ \A i \in 1..Len(bundle[f]) :
                  ClauseNoCurrency(bundle[f][i]) =>
                      LET p == pick_money(f, bundle[f])
                      IN  p = NoPick \/ p.line # i
            /\ (\A i \in 1..Len(bundle[f]) : ClauseNoCurrency(bundle[f][i])) =>
                  row[f] = None

\* the same, the score only, with at most three keywords of the field found
C17_ScoreNegative ==
    pc = "money_done" =>
        \A f \in MONEY_FIELDS :
            \A i \in 1..Len(bundle[f]) :
                (ClauseNoCurrency(bundle[f][i]) /\ bundle[f][i].nkw <= 3) =>
                    \A g \in MONEY_FIELDS : score_snippet(g, bundle[f][i]) < 0

(***************************************************************************)
(* Area picker, line by line (extract/parse_fields.py)                     *)
(***************************************************************************)
\* kw     : the area keywords matched (KW_CARPET, KW_CHARGEABLE, KW_CAM)
\* phrase : "per sq ft" when KW_RATE_PHRASE matches ('per square feet',
\*          'per sq ft', 'per sqft'), "per square foot" for a rate phrase
\*          that expression does not match, "none" otherwise
\* period : "month" when the line holds 'month' or KW_MONTHLY matches,
\*          "annum" for another period, "none" otherwise
\* area   : the number of the first AREA_TOKEN_RE match (a number directly
\*          followed by an area unit), None if there is no match
\* others : the numbers of the line that are not attached to an area unit
AreaLine(kw, phrase, period, area, others) ==
    [kw |-> kw, phrase |-> phrase, period |-> period, area |-> area,
     others |-> others]

KwRatePhrase(ln) == ln.phrase = "per sq ft"
\* SQFT_UNIT_RE: an area unit anywhere in the line
SqftUnit(ln) == ln.area # None \/ KwRatePhrase(ln)

\* variant: no rejection of rate lines
extract_area_any_line(ln) == ln.area

extract_area_from_line(ln) ==
    IF KwRatePhrase(ln) /\ ln.period = "month" THEN None ELSE ln.area

AreaKeyword(field) ==
    CASE field = "carpet_area_sqft" -> "carpet"
      [] field = "super_builtup_area_sqft" -> "chargeable"
      [] OTHER -> "cam"

pick_area(field, lines) ==
    LET Ok(ln) == /\ AreaKeyword(field) \in ln.kw
                  /\ extract_area_from_line(ln) # None
        Val(ln) == extract_area_from_line(ln)
        Sc(ln) == 30 + (IF SqftUnit(ln) THEN 15 ELSE 0)
                     - (IF KwRatePhrase(ln) THEN 25 ELSE 0)
    IN  best_pick(LinePicks(lines, Ok, Val, Sc))

(***************************************************************************)
(* SpecArea: the area picks of extract_row on bundles given line by line   *)
(***************************************************************************)
BothKw == {"carpet", "chargeable"}

AreaLines ==
    { \* 'Rent is payable at Rs.80 per square feet per month'
      AreaLine({}, "per sq ft", "month", None, << IntV(80) >>),
      \* '... chargeable area / carpet area of 12,000 sq ft at Rs.80 per sq ft per month'
      AreaLine(BothKw, "per sq ft", "month", IntV(12000), << IntV(80) >>),
      \* '... of 12,000 sq ft at Rs.960 per sq ft per annum'
      AreaLine(BothKw, "per sq ft", "annum", IntV(12000), << IntV(960) >>),
      \* '... of 12,000 sq ft at Rs.80 per square foot per month'
      AreaLine(BothKw, "per square foot", "month", IntV(12000), << IntV(80) >>),
      \* 'The carpet area / chargeable area is 9,000 sq ft'
      AreaLine(BothKw, "none", "none", IntV(9000), << >>),
      \* 'The carpet area / chargeable area is on floors 7 and 8'
      AreaLine(BothKw, "none", "none", None, << IntV(7), IntV(8) >>),
      \* 'Terrace of 500 sq ft'
      AreaLine({}, "none", "none", IntV(500), << >>),
      \* 'Carpet area / chargeable area charged at Rs.80 per sq ft'
      AreaLine(BothKw, "per sq ft", "none", None, << IntV(80) >>) }

AreaFields == {"carpet_area_sqft", "super_builtup_area_sqft"}

AreaBundles ==
    { [EmptyBundle EXCEPT ![f] = ls] :
        f \in AreaFields,
        ls \in UNION { [1..n -> AreaLines] : n \in 1..MaxLines } }

InitArea ==
    /\ pc = "area_start"
    /\ bundle \in AreaBundles
    /\ evidence = NoEvidence
    /\ notes = << >>
    /\ row0 = BlankRow
    /\ row = BlankRow
    /\ suggestions = << >>
    /\ applied = << >>
    /\ conflicts = << >>
    /\ confidences = NoConfidence
    /\ queue = << >>
    /\ NoJob
    /\ first = NoFirst
    /\ library = FIELD_ANCHORS
    /\ NoScan
    /\ NoRun

\* extract_row, lines 643-652: the two areas get the value of their Pick
PickArea ==
    /\ pc = "area_start"
    /\ row' = [f \in FieldSet |->
                  IF f \in AreaFields THEN pick_area(f, bundle[f]).value ELSE row[f]]
    /\ evidence' = [k \in EvidenceKeys |->
                      IF k \in AreaFields /\ pick_area(k, bundle[k]) # NoPick
                      THEN "text" ELSE evidence[k]]
    /\ row0' = row
    /\ pc' = "area_done"
    /\ UNCHANGED <<bundle, notes, suggestions, applied, conflicts, confidences,
                   queue, jobVars, first, library, scanVars, runVars>>

NextArea == PickArea

SpecArea == InitArea /\ [][NextArea]_vars

\* the line a field's value was picked from
PickedLine(f) == bundle[f][pick_area(f, bundle[f]).line]

\* the value of field f is a number attached to an area unit on a line that
\* matches the field's keyword
FromAreaToken(f) ==
    /\ AreaKeyword(f) \in PickedLine(f).kw
    /\ PickedLine(f).area # None
    /\ row[f] = PickedLine(f).area

EditedTyped == {"lease_tenure_months", "carpet_area_sqft", "ifrsd_rs",
                "lease_start_date"}

\* request values: 'abc', '5.7', 5.7, 'n/a', '2023-01-01'
RawValues == { Text(3), NumStr(57, 10), Num(57, 10), NullWord, DateStr(2023, 1, 1) }

EditPayloads ==
    { << f, a, v >> : f \in EditedTyped, a \in {"accept", "edit"},
                      v \in RawValues \cup {None} }
    \cup { << f, "clear", None >> : f \in EditedTyped }

\* the 'fields' dict of a save request, one entry
SavePayloads == { << f, v >> : f \in EditedTyped, v \in RawValues \cup {None} }

\* the rows a job's working state was built from before the edit
EditRows ==
    { BlankRow,
      [BlankRow EXCEPT !["lease_tenure_months"] = IntV(36),
                       !["carpet_area_sqft"] = IntV(9000),
                       !["ifrsd_rs"] = IntV(4320000),
                       !["lease_start_date"] = DateStr(2023, 1, 1)],
      [BlankRow EXCEPT !["lease_tenure_months"] = IntV(24),
                       !["carpet_area_sqft"] = Num(90005, 10)] }

InitEdit ==
    /\ pc = "job_created"
    /\ bundle = EmptyBundle
    /\ evidence = NoEvidence
    /\ notes = << >>
    /\ row0 = BlankRow
    /\ row = BlankRow
    /\ suggestions = << >>
    /\ applied = << >>
    /\ conflicts = << >>
    /\ confidences = NoConfidence
    /\ queue = << >>
    /\ input = 0
    /\ meta = new_job
    /\ task = "none"
    /\ ocr = 0
    /\ stage2 = NoStage2
    /\ stage3 = NoLlm
    /\ \E r \in EditRows :
          working = init_working_state(r, NullConfidence, << >>, NoLlm, "unknown")
    /\ working0 = working
    /\ first = NoFirst
    /\ library = FIELD_ANCHORS
    /\ NoScan
    /\ NoRun

\* POST /jobs/{id}/field_action on a typed field
edit_field == pc = "job_created" /\ \E p \in EditPayloads : FieldAction(p)

\* POST /jobs/{id}/save: every entry of the payload goes through
\* coerce_value; the review record is left alone (meta.saved_at is a time
\* stamp, not modelled)
save_changes ==
    \E p \in SavePayloads :
        /\ pc = "job_created"
        /\ working' = [working EXCEPT
                         !.fields[p[1]].value = coerce_value(p[1], p[2])]
        /\ pc' = "job_saved"
        /\ UNCHANGED <<extractVars, input, meta, task, ocr, stage2, stage3, working0>>

NextEdit ==
    \/ edit_field
    \/ save_changes

SpecEdit == InitEdit /\ [][NextEdit]_vars

\* the type classes: an integer, a float, a string, or null
TypeClassOk(f, v) ==
    \/ v = None
    \/ f \in INT_FIELDS /\ v.k = "num" /\ v.b = 1
    \/ f \in FLOAT_FIELDS \cup MONEY_FIELDS /\ v.k = "num"
    \/ f \in DATE_FIELDS /\ v.k \in {"str", "text", "numstr"}

\* C19 as stated: every value written into the working state by
\* field_action or save matches the type class of its field: integer fields
\* hold an integer or null, float and money fields a float or null, date
\* fields a string or null.
C19_AsStated ==
    pc \in {"job_edited", "job_saved"} =>
        \A f \in EditedTyped : TypeClassOk(f, working.fields[f].value)

\* the same for the inputs that can be converted: numbers and numeric strings
\* on numeric fields, strings on date fields
C19_Convertible ==
    [][\A p \in SavePayloads :
          (/\ working'.fields[p[1]].value = coerce_value(p[1], p[2])
           /\ \/ p[2] = None
              \/ p[2].k \in {"nullword", "estr"}
              \/ p[1] \in DATE_FIELDS /\ p[2].k \in {"str", "text", "numstr"}
              \/ p[1] \notin DATE_FIELDS /\ p[2].k \in {"num", "numstr"})
          => TypeClassOk(p[1], working'.fields[p[1]].value)]_vars

(***************************************************************************)
(* The inferred efficiency suggestion on a ratio-clause row (Spec)         *)
(***************************************************************************)
HasInferredEfficiency ==
    \E i \in 1..Len(suggestions) :
        suggestions[i].field = "efficiency" /\ suggestions[i].kind = "inferred"

\* C20 as stated: on a row whose efficiency was set from a ratio clause the
\* inferred efficiency suggestion neither overwrites efficiency nor produces
\* a Conflict for efficiency, so the field keeps the confidence of its
\* evidence and is not queued as a conflict.
C20_AsStated ==
    (pc = "queued" /\ find_ratio(bundle) # None /\ HasInferredEfficiency) =>
        /\ row["efficiency"] = find_ratio(bundle)
        /\ \A i \in 1..Len(conflicts) : conflicts[i].field # "efficiency"
        /\ confidences["efficiency"] = 72
        /\ ItemOf("efficiency").reason = "ok"

\* the same, the value only: the suggestion never replaces the clause ratio
C20_NeverOverwrites ==
    (pc = "queued" /\ find_ratio(bundle) # None /\ HasInferredEfficiency) =>
        row["efficiency"] = find_ratio(bundle)

(***************************************************************************)
(* Anchor scan (anchors.py): OCR text -> pages -> hits -> anchor bundle,   *)
(* and the evidence the review queue attaches to each item                 *)
(* (validate_and_fill.py).                                                 *)
(*                                                                         *)
(* A text is a sequence of items: a page marker "--- PAGE n ---" or a line *)
(* of the text.  A line is its body together with a flag telling whether   *)
(* whitespace surrounds the body; a body of "" is a line of whitespace.    *)
(***************************************************************************)
Marker(n) == [kind |-> "marker", no |-> n, body |-> "", pad |-> FALSE]

TextLine(s) == [kind |-> "line", no |-> 0, body |-> s, pad |-> FALSE]

Padded(s) == [kind |-> "line", no |-> 0, body |-> s, pad |-> TRUE]

BlankLine == Padded("")

\* str.strip(): the body without the surrounding whitespace.
strip(ln) == [ln EXCEPT !.pad = FALSE]

\* The regular expressions of the scan, evaluated on the lines of the model.
GENERIC_SPAM_RE(s) == s \in {"months", "per month"}

AFTER_PERIOD_RE(s) ==
    s \in {"after 3 months", "upon 6 months", "rent payable after 3 months"}

\* The fields one of whose patterns matches the line, in library order.
AnchorFields(s) ==
    CASE s = "monthly rent Rs. 50,000 per month" -> << "monthly_rent_rs" >>
      [] s = "3. rent payable as agreed" -> << "monthly_rent_rs" >>
      [] s = "per month" -> << "monthly_rent_rs" >>
      [] s = "rent-free period" -> << "rent_free_period_months" >>
      [] s = "after 3 months" -> << "rent_free_period_months" >>
      [] s = "rent payable after 3 months" ->
             << "rent_free_period_months", "monthly_rent_rs" >>
      [] s = "commencement date 01/04/2021" -> << "lease_start_date" >>
      [] OTHER -> << >>

DATE_RE(s) == s = "commencement date 01/04/2021"

MONEY_RE(s) == s = "monthly rent Rs. 50,000 per month"

NUM_RE(s) ==
    s \in {"monthly rent Rs. 50,000 per month", "after 3 months",
           "upon 6 months", "rent payable after 3 months",
           "3. rent payable as agreed", "commencement date 01/04/2021"}

CLAUSE_NO_RE(s) == s = "3. rent payable as agreed"

LineLen(s) ==
    CASE s = "monthly rent Rs. 50,000 per month" -> 33
      [] s = "3. rent payable as agreed" -> 25
      [] s = "per month" -> 9
      [] s = "months" -> 6
      [] s = "rent-free period" -> 16
      [] s = "after 3 months" -> 14
      [] s = "upon 6 months" -> 13
      [] s = "rent payable after 3 months" -> 27
      [] s = "commencement date 01/04/2021" -> 28
      [] s = "witnesseth" -> 10
      [] OTHER -> 0

RECURSIVE Concat(_)
\* The concatenation of a sequence of sequences.
Concat(ss) == IF ss = << >> THEN << >> ELSE Head(ss) \o Concat(Tail(ss))

Take(s, n) == SubSeq(s, 1, Min(n, Len(s)))

\* The items that follow the first marker, cut into (marker, lines) parts.
RECURSIVE SplitPages(_, _)
SplitPages(items, acc) ==
    IF items = << >> THEN acc
    ELSE LET it == Head(items) IN
         IF it.kind = "marker"
         THEN SplitPages(Tail(items), Append(acc, [no |-> it.no, lines |-> << >>]))
         ELSE IF acc = << >>
         THEN SplitPages(Tail(items), acc)
         ELSE SplitPages(Tail(items),
                  [acc EXCEPT ![Len(acc)].lines = Append(@, it)])

\* parse_pages: one page per marker, numbered by the marker's integer, its
\* lines stripped and the empty ones dropped.
parse_pages(txt) ==
    LET parts == SplitPages(txt, << >>)
        Kept(lines) == SelectSeq([i \in 1..Len(lines) |-> strip(lines[i])],
                                 LAMBDA ln : ln.body # "")
    IN [i \in 1..Len(parts) |-> [no |-> parts[i].no, lines |-> Kept(parts[i].lines)]]

AnchorHit(field, page, line_no, snippet) ==
    [field |-> field, page |-> page, line_no |-> line_no, snippet |-> snippet]

WINDOW == 3

\* The window of lines around line idx, joined: the bodies in order.
Snippet(lines, idx) ==
    LET start == IF idx - WINDOW < 1 THEN 1 ELSE idx - WINDOW
        end == Min(Len(lines), idx + WINDOW)
    IN [i \in 1..(end - start + 1) |-> lines[start + i - 1].body]

\* The hits line idx of a page registers (line_no counts from 0).
LineHits(page_no, lines, idx) ==
    LET s == lines[idx].body
        flds == SelectSeq(AnchorFields(s), LAMBDA f : FIELD_ANCHORS[f] # << >>)
        snip == Snippet(lines, idx)
    IN IF GENERIC_SPAM_RE(s) THEN << >>
       ELSE [i \in 1..Len(flds) |-> AnchorHit(flds[i], page_no, idx - 1, snip)]
            \o (IF AFTER_PERIOD_RE(s)
                THEN << AnchorHit("rent_free_period_months", page_no, idx - 1, snip) >>
                ELSE << >>)

find_hits(pgs) ==
    Concat([p \in 1..Len(pgs) |->
              Concat([idx \in 1..Len(pgs[p].lines) |->
                        LineHits(pgs[p].no, pgs[p].lines, idx)])])

MAX_PER_FIELD == 12

BundleHit(h) == [page |-> h.page, line_no |-> h.line_no, snippet |-> h.snippet]

\* top_hits_by_field, keeping the last hits of a field instead of the first.
top_hits_last(hs, max_per_field) ==
    [f \in {hs[i].field : i \in 1..Len(hs)} |->
        LET own == SelectSeq(hs, LAMBDA h : h.field = f)
            from == IF Len(own) > max_per_field THEN Len(own) - max_per_field + 1 ELSE 1
        IN [i \in 1..(Len(own) - from + 1) |-> BundleHit(own[from + i - 1])]]

\* top_hits_by_field: per field seen, its first max_per_field hits in the
\* order of the hit list.
top_hits_by_field(hs, max_per_field) ==
    [f \in {hs[i].field : i \in 1..Len(hs)} |->
        LET own == Take(SelectSeq(hs, LAMBDA h : h.field = f), max_per_field)
        IN [i \in 1..Len(own) |-> BundleHit(own[i])]]

\* main: every field has an entry, empty unless the scan found hits.
AnchorBundle(hs) ==
    LET top == top_hits_by_field(hs, MAX_PER_FIELD)
    IN [f \in FieldSet |-> IF f \in DOMAIN top THEN top[f] ELSE << >>]

(***************************************************************************)
(* Evidence of a review item (validate_and_fill.py)                        *)
(***************************************************************************)
MAX_EVIDENCE_SNIPPETS == 10

MAX_SNIPPET_CHARS == 1050

RECURSIVE SumLen(_)
SumLen(snip) == IF snip = << >> THEN 0 ELSE LineLen(Head(snip)) + SumLen(Tail(snip))

\* len(flatten(snippet)): the lines joined by single blanks.
FlatLen(snip) == IF snip = << >> THEN 0 ELSE SumLen(snip) + Len(snip) - 1

RECURSIVE Truncated(_)
\* snippet[:MAX_SNIPPET_CHARS], to the last whole line that fits.
Truncated(snip) ==
    IF FlatLen(snip) <= MAX_SNIPPET_CHARS THEN snip
    ELSE Truncated(SubSeq(snip, 1, Len(snip) - 1))

\* validate_and_fill.score_snippet of a snippet for a field.
score_snippet_vf(field, snip) ==
    LET date == \E i \in 1..Len(snip) : DATE_RE(snip[i])
        money == \E i \in 1..Len(snip) : MONEY_RE(snip[i])
        clause == snip # << >> /\ CLAUSE_NO_RE(snip[1])
        num == \E i \in 1..Len(snip) : NUM_RE(snip[i])
    IN (IF field \in DATE_FIELDS THEN (IF date THEN 3 ELSE -1) ELSE 0)
       + (IF field \in MONEY_FIELDS
          THEN (IF money THEN 5 ELSE -2) + (IF clause /\ ~money THEN -6 ELSE 0)
          ELSE 0)
       + (IF num THEN 1 ELSE 0)
       + (IF FlatLen(snip) < 30 THEN -1 ELSE 0)

Evidence(field, a) ==
    LET txt == Truncated(a.snippet)
    IN [source_field |-> field, page |-> a.page, line_no |-> a.line_no,
        text |-> txt, score |-> score_snippet_vf(field, txt)]

RECURSIVE InsertByScore(_, _)
InsertByScore(sorted, c) ==
    IF sorted = << >> THEN << c >>
    ELSE IF Head(sorted).score >= c.score
         THEN << Head(sorted) >> \o InsertByScore(Tail(sorted), c)
         ELSE << c >> \o sorted

RECURSIVE SortByScore(_)
\* list.sort(key=score, reverse=True): descending, equal scores keep their order.
SortByScore(cs) ==
    IF cs = << >> THEN << >>
    ELSE InsertByScore(SortByScore(SubSeq(cs, 1, Len(cs) - 1)), cs[Len(cs)])

\* validate_and_fill.collect_top_evidence: the bundle's hits of the field,
\* scored, sorted and cut to MAX_EVIDENCE_SNIPPETS.
collect_top_evidence(anchor_bundle, extracted_evidence, field) ==
    LET as == anchor_bundle[field]
        cands == [i \in 1..Len(as) |-> Evidence(field, as[i])]
    IN Take(SortByScore(cands), MAX_EVIDENCE_SNIPPETS)

(***************************************************************************)
(* Specification SpecScan: one text is scanned into the anchor bundle and  *)
(* the review queue is built on it.                                        *)
(***************************************************************************)
ScanBodies ==
    {"monthly rent Rs. 50,000 per month", "3. rent payable as agreed",
     "per month", "months", "rent-free period", "after 3 months",
     "upon 6 months", "rent payable after 3 months",
     "commencement date 01/04/2021", "witnesseth"}

ScanItems ==
    {TextLine(s) : s \in ScanBodies} \cup {BlankLine, Padded("rent-free period")}

MaxRepeat == 7

RECURSIVE Repeat(_, _)
Repeat(s, n) == IF n = 0 THEN << >> ELSE s \o Repeat(s, n - 1)

SecondPageItems ==
    {TextLine("upon 6 months"), TextLine("months"), Padded("after 3 months")}

\* A preamble, a first page of a two-line pattern repeated, and possibly a
\* second page of one line; the markers carry the numbers the text gives them.
ScanText(a, b, k, no, second) ==
    << TextLine("witnesseth"), Marker(no[1]) >> \o Repeat(<< a, b >>, k)
        \o (IF second = << >> THEN << >> ELSE << Marker(no[2]) >> \o second)

ScanTexts ==
    { ScanText(a, b, k, no, second) :
        a \in ScanItems, b \in ScanItems, k \in {1, MaxRepeat},
        no \in {<< 1, 2 >>, << 2, 1 >>, << 1, 1 >>},
        second \in {<< >>} \cup {<< it >> : it \in SecondPageItems} }

InitScan ==
    /\ pc = "scan_start"
    /\ bundle = [f \in FieldSet |-> << >>]
    /\ evidence = [f \in FieldSet |-> "absent"]
    /\ notes = {}
    /\ row0 = BlankRow
    /\ row = BlankRow
    /\ suggestions = << >>
    /\ applied = << >>
    /\ conflicts = << >>
    /\ confidences = NoConfidence
    /\ queue = << >>
    /\ NoJob
    /\ first = NoFirst
    /\ library = FIELD_ANCHORS
    /\ text \in ScanTexts
    /\ pages = << >>
    /\ hits = << >>
    /\ snippets = NoSnippets
    /\ NoRun

ParsePages ==
    /\ pc = "scan_start"
    /\ pages' = parse_pages(text)
    /\ pc' = "parsed"
    /\ UNCHANGED <<bundle, evidence, notes, row0, row, suggestions, applied,
                   conflicts, confidences, queue, jobVars, first, library,
                   text, hits, snippets, runVars>>

FindHits ==
    /\ pc = "parsed"
    /\ hits' = find_hits(pages)
    /\ pc' = "found"
    /\ UNCHANGED <<bundle, evidence, notes, row0, row, suggestions, applied,
                   conflicts, confidences, queue, jobVars, first, library,
                   text, pages, snippets, runVars>>

TopHits ==
    /\ pc = "found"
    /\ bundle' = AnchorBundle(hits)
    /\ pc' = "bundled"
    /\ UNCHANGED <<evidence, notes, row0, row, suggestions, applied,
                   conflicts, confidences, queue, jobVars, first, library,
                   text, pages, hits, snippets, runVars>>

\* build_review_queue on the bundle: every item carries its field's evidence.
BuildQueueEvidence ==
    /\ pc = "bundled"
    /\ queue' = build_review_queue(row, confidences, conflicts)
    /\ snippets' = [f \in FieldSet |-> collect_top_evidence(bundle, evidence, f)]
    /\ pc' = "collected"
    /\ UNCHANGED <<bundle, evidence, notes, row0, row, suggestions, applied,
                   conflicts, confidences, jobVars, first, library,
                   text, pages, hits, runVars>>

NextScan == ParsePages \/ FindHits \/ TopHits \/ BuildQueueEvidence

SpecScan == InitScan /\ [][NextScan]_vars

TOP_K_EVIDENCE == 6

EvidenceKey(e) == << e.page, e.line_no, e.text >>

\* C21: every review item carries at most 6 evidence snippets, sorted by
\* descending score, no two of them with the same (page, line_no, text).
C21_AsStated ==
    pc = "collected" =>
        \A i \in 1..Len(queue) :
            LET ev == snippets[queue[i].field] IN
            /\ Len(ev) <= TOP_K_EVIDENCE
            /\ \A j \in 1..(Len(ev) - 1) : ev[j].score >= ev[j + 1].score
            /\ \A j, k \in 1..Len(ev) :
                   j # k => EvidenceKey(ev[j]) # EvidenceKey(ev[k])

\* How many hits for field f a line registers.
Registers(s, f) ==
    IF GENERIC_SPAM_RE(s) THEN 0
    ELSE Cardinality({ i \in 1..Len(AnchorFields(s)) : AnchorFields(s)[i] = f })
         + (IF f = "rent_free_period_months" /\ AFTER_PERIOD_RE(s) THEN 1 ELSE 0)

\* The hits of field f in scan order: pages in input order, lines top to
\* bottom.
ExpectedHits(f) ==
    Concat([p \in 1..Len(pages) |->
              Concat([i \in 1..Len(pages[p].lines) |->
                        Repeat(<< [page |-> pages[p].no, line_no |-> i - 1,
                                   snippet |-> Snippet(pages[p].lines, i)] >>,
                               Registers(pages[p].lines[i].body, f))])])

\* C23: the bundle holds, for every field, at most 12 hits and exactly the
\* first hits in scan order; a line "after/upon N months" registers a
\* rent_free_period_months hit whether or not a pattern matches it; every hit
\* comes from a line that is not a generic token.
C23_FirstHits ==
    pc \in {"bundled", "collected"} =>
        /\ \A f \in FieldSet :
              /\ Len(bundle[f]) <= 12
              /\ bundle[f] = Take(ExpectedHits(f), 12)
        /\ \A p \in 1..Len(pages) : \A i \in 1..Len(pages[p].lines) :
              AFTER_PERIOD_RE(pages[p].lines[i].body) =>
                  \E k \in 1..Len(hits) :
                      /\ hits[k].field = "rent_free_period_months"
                      /\ hits[k].page = pages[p].no
                      /\ hits[k].line_no = i - 1
        /\ \A k \in 1..Len(hits) :
              \E p \in 1..Len(pages) : \E i \in 1..Len(pages[p].lines) :
                  /\ hits[k].page = pages[p].no
                  /\ hits[k].line_no = i - 1
                  /\ ~GENERIC_SPAM_RE(pages[p].lines[i].body)

\* A scan where a field has more than 12 hits, a line "upon 6 months" that no
\* pattern matches, and a generic line that a pattern would match.
C23_Witness ==
    /\ pc = "bundled"
    /\ \E f \in FieldSet : Len(ExpectedHits(f)) > 12 /\ Len(bundle[f]) = 12
    /\ \E p \in 1..Len(pages) : \E i \in 1..Len(pages[p].lines) :
          /\ pages[p].lines[i].body = "upon 6 months"
          /\ AnchorFields("upon 6 months") = << >>
    /\ \E p \in 1..Len(pages) : \E i \in 1..Len(pages[p].lines) :
          /\ GENERIC_SPAM_RE(pages[p].lines[i].body)
          /\ AnchorFields(pages[p].lines[i].body) # << >>

MarkersOf(txt) == SelectSeq(txt, LAMBDA it : it.kind = "marker")

\* C24: the pages have strictly increasing numbers, each the integer of its
\* marker, and every line of a page is non-empty and trimmed.
C24_AsStated ==
    pc # "scan_start" =>
        /\ \A i \in 1..(Len(pages) - 1) : pages[i].no < pages[i + 1].no
        /\ Len(pages) = Len(MarkersOf(text))
        /\ \A i \in 1..Len(pages) : pages[i].no = MarkersOf(text)[i].no
        /\ \A i \in 1..Len(pages) : \A j \in 1..Len(pages[i].lines) :
              /\ pages[i].lines[j].body # ""
              /\ ~pages[i].lines[j].pad

\* The part of C24 that does not depend on the numbers the markers carry.
C24_MarkersAndLines ==
    pc # "scan_start" =>
        /\ Len(pages) = Len(MarkersOf(text))
        /\ \A i \in 1..Len(pages) : pages[i].no = MarkersOf(text)[i].no
        /\ \A i \in 1..Len(pages) : \A j \in 1..Len(pages[i].lines) :
              /\ pages[i].lines[j].body # ""
              /\ ~pages[i].lines[j].pad

(***************************************************************************)
(* Specification SpecPick: extract_row on bundles whose candidates tie.    *)
(***************************************************************************)
TenureCands == { H(None, 0), H(IntV(24), 35), H(IntV(36), 35), H(IntV(24), 50) }

ParkingCands ==
    { Hit(None, 0, None, FALSE, c, t) :
        c \in {None, IntV(2), IntV(3)}, t \in {None, IntV(5)} }

MaxCands == 3

SeqsUpTo(S, n) == UNION { [1..k -> S] : k \in 0..n }

PickBundles ==
    { [EmptyBundle EXCEPT !["lease_tenure_months"] = ts,
                          !["parking_4w_included"] = ps,
                          !["parking_2w_included"] = qs] :
        ts \in SeqsUpTo(TenureCands, MaxCands),
        ps \in SeqsUpTo(ParkingCands, 2),
        qs \in {<< >>, << Hit(None, 0, None, FALSE, IntV(1), IntV(4)) >>} }

InitPick ==
    /\ pc = "ex_start"
    /\ bundle \in PickBundles
    /\ evidence = NoEvidence
    /\ notes = << >>
    /\ row0 = BlankRow
    /\ row = BlankRow
    /\ suggestions = << >>
    /\ applied = << >>
    /\ conflicts = << >>
    /\ confidences = NoConfidence
    /\ queue = << >>
    /\ NoJob
    /\ first = NoFirst
    /\ library = FIELD_ANCHORS
    /\ NoScan
    /\ NoRun

NextPick == ExExtract

SpecPick == InitPick /\ [][NextPick]_vars

\* The Picks of the tenure picker and of the two parking counts, in scan
\* order: the value and the score of every qualifying candidate.
TenurePicks ==
    LET cs == bundle["lease_tenure_months"]
        q == SelectSeq(cs, LAMBDA h : h.val # None)
    IN [i \in 1..Len(q) |-> [value |-> q[i].val, score |-> q[i].sc]]

ParkingScan == bundle["parking_4w_included"] \o bundle["parking_2w_included"]

CarPicks ==
    LET q == SelectSeq(ParkingScan, LAMBDA h : h.car # None)
    IN [i \in 1..Len(q) |->
          [value |-> q[i].car, score |-> IF q[i].two # None THEN 60 ELSE 30]]

TwoPicks ==
    LET q == SelectSeq(ParkingScan, LAMBDA h : h.two # None)
    IN [i \in 1..Len(q) |->
          [value |-> q[i].two, score |-> IF q[i].car # None THEN 60 ELSE 30]]

\* v is the value of the pick of highest score, the first of those in ps.
FirstHighest(ps, v) ==
    \E i \in 1..Len(ps) :
        /\ v = ps[i].value
        /\ \A j \in 1..Len(ps) : ps[j].score <= ps[i].score
        /\ \A j \in 1..(i - 1) : ps[j].score < ps[i].score

Reduced(ps, f) ==
    IF ps = << >>
    THEN row[f] = None /\ evidence[f] = "absent"
    ELSE FirstHighest(ps, row[f]) /\ evidence[f] = "text"

\* C22: the picked value is that of the highest-scoring Pick, the first in
\* scan order among equal scores; with no qualifying candidate the field is
\* null and has no evidence.
C22_FirstHighest ==
    pc = "ex_done" =>
        /\ Reduced(TenurePicks, "lease_tenure_months")
        /\ Reduced(CarPicks, "parking_4w_included")
        /\ Reduced(TwoPicks, "parking_2w_included")

\* Two tenure Picks of equal, highest score with different values after a
\* lower one; a parking pair found after a single count; a field without Picks.
C22_Witness ==
    /\ pc = "ex_done"
    /\ bundle["lease_tenure_months"] = << H(IntV(24), 35), H(IntV(36), 35) >>
    /\ row["lease_tenure_months"] = IntV(24)
    /\ bundle["parking_4w_included"] =
           << Hit(None, 0, None, FALSE, IntV(2), None),
              Hit(None, 0, None, FALSE, IntV(3), IntV(5)) >>
    /\ row["parking_4w_included"] = IntV(3)
    /\ bundle["parking_2w_included"] = << >>
    /\ row["lock_in_period"] = None
    /\ evidence["lock_in_period"] = "absent"

AppliedFields == { applied[i].field : i \in 1..Len(applied) }

ConflictFields == { conflicts[i].field : i \in 1..Len(conflicts) }

\* C25: within one validation pass no field is both autofilled and in
\* conflict, and no autofilled field is queued as conflict_with_derived.
C25_Disjoint ==
    /\ pc \in {"checked", "scored", "queued"} => AppliedFields \cap ConflictFields = {}
    /\ pc = "queued" =>
          \A i \in 1..Len(queue) :
              queue[i].field \in AppliedFields => queue[i].reason # "conflict_with_derived"

\* A pass that autofilled one field and found a conflict on another.
C25_Witness ==
    /\ pc = "queued"
    /\ AppliedFields # {}
    /\ ConflictFields # {}
    /\ \E i \in 1..Len(queue) : queue[i].field \in AppliedFields

(***************************************************************************)
(* Specification SpecFix: a second derive / apply pass on the filled row.  *)
(***************************************************************************)
DeriveAgain ==
    /\ pc = "applied"
    /\ suggestions' = suggest_dates(row) \o suggest_numeric(row)
    /\ pc' = "derived_again"
    /\ UNCHANGED <<bundle, evidence, notes, row0, row, applied, conflicts,
                   confidences, queue, jobVars, first, library, scanVars, runVars>>

ApplyAgain ==
    /\ pc = "derived_again"
    /\ LET res == apply_suggestions_if_missing(row, suggestions)
       IN  /\ row' = res.row
           /\ applied' = res.applied
    /\ row0' = row
    /\ pc' = "applied_again"
    /\ UNCHANGED <<bundle, evidence, notes, suggestions, conflicts,
                   confidences, queue, jobVars, first, library, scanVars, runVars>>

NextFix == Extract \/ Derive \/ ApplyMissing \/ DeriveAgain \/ ApplyAgain

SpecFix == Init /\ [][NextFix]_vars

\* C26: after one derive / apply pass on an extracted row, a second pass
\* fills no field and changes no value.
C26_Fixpoint ==
    pc = "applied_again" => row = row0 /\ applied = << >>

\* A second pass on a row the first pass filled (a value without evidence of
\* its own), with suggestions derived from the filled row.
C26_Witness ==
    /\ pc = "applied_again"
    /\ suggestions # << >>
    /\ row["lease_end_date"] # None /\ evidence["lease_end_date"] = "absent"
    /\ row["rate_per_sqft_rs"] # None

(***************************************************************************)
(* Specification SpecRace: two run requests on one job.  run_job is a      *)
(* plain function, served on a worker thread; run_job_stage is a coroutine *)
(* of the event loop that does not await between reading meta.json and     *)
(* writing it.  Neither takes a lock.                                      *)
(***************************************************************************)
Requests == {1, 2}

RunKinds == {"pipeline", "stage1", "stage2", "stage3"}

Request(kind) == [kind |-> kind, at |-> "arrived", meta |-> new_job, answer |-> "none"]

InitRace ==
    /\ pc = "race"
    /\ bundle = EmptyBundle
    /\ evidence = NoEvidence
    /\ notes = << >>
    /\ row0 = BlankRow
    /\ row = BlankRow
    /\ suggestions = << >>
    /\ applied = << >>
    /\ conflicts = << >>
    /\ confidences = NoConfidence
    /\ queue = << >>
    /\ input \in 0..1
    /\ meta = new_job
    /\ task = "none"
    /\ ocr = 0
    /\ stage2 = NoStage2
    /\ stage3 = NoLlm
    /\ working = init_working_state(BlankRow, NullConfidence, << >>, NoLlm, "unknown")
    /\ working0 = working
    /\ first = NoFirst
    /\ library = FIELD_ANCHORS
    /\ NoScan
    /\ reqs \in [Requests -> {Request(k) : k \in RunKinds}]
    /\ tasks = << >>
    /\ pipeline = DEFAULT_PIPELINE
    /\ run = NoTask
    /\ final = NoFinal

\* A coroutine runs from one await to the next without another coroutine of
\* the loop in between.
LoopBusy(r) ==
    /\ reqs[r].kind # "pipeline"
    /\ \E q \in Requests \ {r} : reqs[q].kind # "pipeline" /\ reqs[q].at = "loaded"

\* meta = jobs.load_job_meta(job_id)
LoadMeta(r) ==
    /\ reqs[r].at = "arrived"
    /\ ~LoopBusy(r)
    /\ reqs' = [reqs EXCEPT ![r].at = "loaded", ![r].meta = meta]
    /\ UNCHANGED <<pc, dataVars, jobVars, tasks, pipeline, run, final>>

\* The rest of run_job / run_job_stage: the test of the status read, the
\* write of 'running' and the scheduling of the background task.
AnswerRun(r) ==
    /\ reqs[r].at = "loaded"
    /\ IF reqs[r].meta.status = "running"
       THEN /\ reqs' = [reqs EXCEPT ![r].at = "answered", ![r].answer = "already_running"]
            /\ UNCHANGED <<meta, tasks>>
       ELSE /\ meta' = [reqs[r].meta EXCEPT !.status = "running"]
            /\ tasks' = Append(tasks, reqs[r].kind)
            /\ reqs' = [reqs EXCEPT ![r].at = "answered", ![r].answer = "started"]
    /\ UNCHANGED <<pc, dataVars, input, task, ocr, stage2, stage3, working,
                   working0, pipeline, run, final>>

RunOutcomes(kind) ==
    CASE kind = "pipeline" ->
            {"stage1_error", "stage2_error", "llm_unavailable", "stage3_error", "success"}
      [] kind = "stage3" -> {"llm_unavailable", "error", "success"}
      [] OTHER -> {"error", "success"}

\* What a run that ended leaves in the job's directory.
Ran(j) ==
    /\ meta' = j.meta
    /\ ocr' = j.ocr
    /\ stage2' = j.stage2
    /\ stage3' = j.stage3
    /\ working' = j.working
    /\ working0' = working

\* A scheduled background task runs and ends.
EndTask(i) ==
    /\ i \in 1..Len(tasks)
    /\ \/ /\ tasks[i] = "pipeline"
          /\ \E o \in RunOutcomes("pipeline"), l \in LlmOutputs : Ran(run_pipeline(o, l))
       \/ /\ tasks[i] = "stage1"
          /\ \E o \in RunOutcomes("stage1") : Ran(run_stage1(o))
       \/ /\ tasks[i] = "stage2"
          /\ \E o \in RunOutcomes("stage2") : Ran(run_stage2(o))
       \/ /\ tasks[i] = "stage3"
          /\ \E o \in RunOutcomes("stage3"), l \in LlmOutputs : Ran(run_stage3(o, l))
    /\ tasks' = SubSeq(tasks, 1, i - 1) \o SubSeq(tasks, i + 1, Len(tasks))
    /\ UNCHANGED <<pc, dataVars, input, task, reqs, pipeline, run, final>>

NextRace ==
    \/ \E r \in Requests : LoadMeta(r)
    \/ \E r \in Requests : AnswerRun(r)
    \/ \E i \in 1..2 : EndTask(i)

SpecRace == InitRace /\ [][NextRace]_vars

\* C27: at most one run of the job is scheduled or in progress, and a request
\* handled while a run is in progress is answered already_running.
C27_AsStated == Len(tasks) <= 1

\* What the handlers do guarantee: a request that reads meta.json while the
\* status is 'running' schedules nothing.
C27_Sequential ==
    [][\A r \in Requests :
          (reqs[r].at = "loaded" /\ reqs[r].meta.status = "running"
             /\ reqs'[r].at = "answered")
          => (reqs'[r].answer = "already_running" /\ tasks' = tasks)]_vars

(***************************************************************************)
(* Specification SpecRun: the background task of a run, step by step       *)
(* (app/core/pipeline.py).  A step that touches the file system outside a  *)
(* try block may raise; what the exception meets decides how the run ends. *)
(* The request handlers are taken as atomic here.                          *)
(***************************************************************************)
Task(kind) == [kind |-> kind, at |-> "scheduled", started |-> {}, llm |-> "unchecked"]

MaxRequests == 2

\* The answer to a request, appended to the requests answered so far.
Answered(kind, answer) == Append(reqs, [kind |-> kind, answer |-> answer])

StageNames == {"stage1", "stage2", "stage3"}

OllamaReasons == {"unreachable", "model_missing"}

InitRun ==
    /\ pc = "run_idle"
    /\ bundle = EmptyBundle
    /\ evidence = NoEvidence
    /\ notes = << >>
    /\ row0 = BlankRow
    /\ row = BlankRow
    /\ suggestions = << >>
    /\ applied = << >>
    /\ conflicts = << >>
    /\ confidences = NoConfidence
    /\ queue = << >>
    /\ input \in 0..1
    /\ meta = new_job
    /\ task = "none"
    /\ ocr = 0
    /\ stage2 = NoStage2
    /\ stage3 = NoLlm
    /\ working = init_working_state(BlankRow, NullConfidence, << >>, NoLlm, "unknown")
    /\ working0 = working
    /\ first = NoFirst
    /\ library = FIELD_ANCHORS
    /\ NoScan
    /\ NoRun

\* run_job / run_job_stage on a job that is not running.
StartRun ==
    /\ Len(reqs) < MaxRequests
    /\ meta.status # "running"
    /\ \E kind \in RunKinds :
          /\ run' = Task(kind)
          /\ reqs' = Answered(kind, "started")
    /\ meta' = [meta EXCEPT !.status = "running"]
    /\ UNCHANGED <<pc, dataVars, input, task, ocr, stage2, stage3, working, working0,
                   tasks, pipeline, final>>

\* run_job / run_job_stage on a running job: 'already_running'.
RefuseRun ==
    /\ Len(reqs) < MaxRequests
    /\ meta.status = "running"
    /\ \E kind \in RunKinds : reqs' = Answered(kind, "already_running")
    /\ UNCHANGED <<pc, dataVars, jobVars, tasks, pipeline, run, final>>

\* The first lines of the task: status 'running' and the stage statuses.
BeginRun ==
    /\ run.at = "scheduled"
    /\ meta' = [meta EXCEPT !.status = "running"]
    /\ pipeline' =
          CASE run.kind = "pipeline" -> pipeline
            [] run.kind = "stage1" ->
                  [stage1 |-> "running", stage2 |-> "pending", stage3 |-> "pending"]
            [] run.kind = "stage2" ->
                  [pipeline EXCEPT !.stage2 = "running", !.stage3 = "pending"]
            [] run.kind = "stage3" -> [pipeline EXCEPT !.stage3 = "running"]
    /\ run' = [run EXCEPT !.at = "begun",
                          !.started = IF run.kind = "pipeline" THEN {} ELSE {run.kind}]
    /\ UNCHANGED <<pc, dataVars, input, task, ocr, stage2, stage3, working, working0,
                   reqs, tasks, final>>

\* The except branch that encloses run_pipeline.
Crash ==
    LET current_stage ==
            IF pipeline.stage3 = "running" THEN "stage3"
            ELSE IF pipeline.stage2 = "running" THEN "stage2"
            ELSE "stage1"
    IN /\ meta' = [meta EXCEPT !.status = "error"]
       /\ pipeline' = [pipeline EXCEPT ![current_stage] = "error"]
       /\ run' = [run EXCEPT !.at = "ended"]

\* _reset_workspace, _reset_stage_dirs, _reset_review_artifacts: the
\* directories are emptied, or removing one of them raises.
Prepare ==
    /\ run.at = "begun"
    /\ \/ /\ run' = [run EXCEPT !.at = "prepared"]
          /\ ocr' = IF run.kind \in {"pipeline", "stage1"} THEN 0 ELSE ocr
          /\ stage2' = IF run.kind = "stage3" THEN stage2 ELSE NoStage2
          /\ stage3' = NoLlm
          /\ final' = IF run.kind \in {"pipeline", "stage1"} THEN NoFinal ELSE final
          /\ UNCHANGED <<meta, pipeline>>
       \/ /\ run.kind = "pipeline"
          /\ Crash
          /\ UNCHANGED <<ocr, stage2, stage3, final>>
       \/ /\ run.kind # "pipeline"
          /\ run' = [run EXCEPT !.at = "died"]
          /\ UNCHANGED <<meta, pipeline, ocr, stage2, stage3, final>>
    /\ UNCHANGED <<pc, dataVars, input, task, working, working0, reqs, tasks>>

\* run_pipeline, stage 1: skipped without an input file, else started.
Stage1Start ==
    /\ run.kind = "pipeline" /\ run.at = "prepared"
    /\ IF input = 0
       THEN /\ pipeline' = [pipeline EXCEPT !.stage1 = "skipped_input_missing"]
            /\ run' = [run EXCEPT !.at = "stage1_done"]
       ELSE /\ pipeline' = [pipeline EXCEPT !.stage1 = "running"]
            /\ run' = [run EXCEPT !.at = "stage1_running", !.started = @ \cup {"stage1"}]
    /\ UNCHANGED <<pc, dataVars, jobVars, reqs, tasks, final>>

Stage1End ==
    /\ run.kind = "pipeline" /\ run.at = "stage1_running"
    /\ \/ /\ pipeline' = [pipeline EXCEPT !.stage1 = "success"]
          /\ ocr' = input
          /\ run' = [run EXCEPT !.at = "stage1_done"]
          /\ UNCHANGED <<meta, working, working0>>
       \/ /\ pipeline' = [pipeline EXCEPT !.stage1 = "error"]
          /\ meta' = [meta EXCEPT !.status = "error"]
          /\ working' = BlankState(meta.llm_status)
          /\ working0' = working
          /\ run' = [run EXCEPT !.at = "ended"]
          /\ UNCHANGED ocr
       \/ /\ Crash
          /\ UNCHANGED <<ocr, working, working0>>
    /\ UNCHANGED <<pc, dataVars, input, task, stage2, stage3, reqs, tasks, final>>

Stage2Start ==
    /\ run.kind = "pipeline" /\ run.at = "stage1_done"
    /\ IF pipeline.stage1 = "success"
       THEN /\ pipeline' = [pipeline EXCEPT !.stage2 = "running"]
            /\ run' = [run EXCEPT !.at = "stage2_running", !.started = @ \cup {"stage2"}]
       ELSE /\ pipeline' = [pipeline EXCEPT !.stage2 = "skipped_no_ocr"]
            /\ run' = [run EXCEPT !.at = "stage2_done"]
    /\ UNCHANGED <<pc, dataVars, jobVars, reqs, tasks, final>>

Stage2End ==
    /\ run.kind = "pipeline" /\ run.at = "stage2_running"
    /\ \/ /\ pipeline' = [pipeline EXCEPT !.stage2 = "success"]
          /\ stage2' = Stage2Outputs[ocr]
          /\ run' = [run EXCEPT !.at = "stage2_done"]
          /\ UNCHANGED <<meta, working, working0>>
       \/ /\ pipeline' = [pipeline EXCEPT !.stage2 = "error"]
          /\ meta' = [meta EXCEPT !.status = "error"]
          /\ working' = BlankState(meta.llm_status)
          /\ working0' = working
          /\ run' = [run EXCEPT !.at = "ended"]
          /\ UNCHANGED stage2
    /\ UNCHANGED <<pc, dataVars, input, task, ocr, stage3, reqs, tasks, final>>

\* The last lines of run_pipeline: stage 3's status, llm_status, the job
\* status and the working state.
Conclude(stage3_status, llm_status, s3) ==
    /\ pipeline' = [pipeline EXCEPT !.stage3 = stage3_status]
    /\ meta' = [status |-> IF pipeline.stage2 = "success" THEN "ready_for_review"
                           ELSE IF pipeline.stage1 = "skipped_input_missing"
                           THEN "needs_input"
                           ELSE meta.status,
                llm_status |-> llm_status]
    /\ stage3' = s3
    /\ working' = FromStage2(stage2, s3, llm_status)
    /\ working0' = working
    /\ run' = [run EXCEPT !.at = "ended",
                          !.llm = IF llm_status = "unavailable" THEN llm_status ELSE @]

\* Stage 3 of run_pipeline up to the LLM script: skipped without stage 2 or
\* without a usable LLM (check_ollama), else started.
Stage3Start ==
    /\ run.kind = "pipeline" /\ run.at = "stage2_done"
    /\ IF pipeline.stage2 # "success"
       THEN Conclude("skipped_no_stage2", "skipped", stage3)
       ELSE \/ \E reason \in OllamaReasons :
                  Conclude("skipped_" \o reason, "unavailable", stage3)
            \/ /\ pipeline' = [pipeline EXCEPT !.stage3 = "running"]
               /\ run' = [run EXCEPT !.at = "stage3_running", !.llm = "available",
                                     !.started = @ \cup {"stage3"}]
               /\ UNCHANGED <<meta, stage3, working, working0>>
    /\ UNCHANGED <<pc, dataVars, input, task, ocr, stage2, reqs, tasks, final>>

Stage3End ==
    /\ run.kind = "pipeline" /\ run.at = "stage3_running"
    /\ \/ \E l \in LlmOutputs : Conclude("success", "ran", l)
       \/ /\ pipeline' = [pipeline EXCEPT !.stage3 = "error"]
          /\ meta' = [meta EXCEPT !.status = "error"]
          /\ working' = FromStage2(stage2, stage3, "error")
          /\ working0' = working
          /\ run' = [run EXCEPT !.at = "ended"]
          /\ UNCHANGED stage3
    /\ UNCHANGED <<pc, dataVars, input, task, ocr, stage2, reqs, tasks, final>>

\* The status run_stage1 / 2 / 3 records for its stage.
StageStatus(kind, o) ==
    CASE kind = "stage1" /\ input = 0 -> "skipped_input_missing"
      [] kind = "stage2" /\ ocr = 0 -> "skipped_no_ocr"
      [] kind = "stage3" /\ ~stage2.has -> "skipped_no_stage2"
      [] o = "llm_unavailable" -> "skipped_unreachable"
      [] OTHER -> o

\* run_stage1 / 2 / 3 after the reset: the copy of the stage's input, which
\* is outside the try block and may raise, then the scripts.
StageRun ==
    /\ run.kind \in StageNames /\ run.at = "prepared"
    /\ \/ /\ \/ run.kind = "stage1" /\ input # 0
             \/ run.kind = "stage2" /\ ocr # 0
             \/ run.kind = "stage3" /\ stage2.has
          /\ run' = [run EXCEPT !.at = "died"]
          /\ UNCHANGED <<meta, pipeline, ocr, stage2, stage3, working, working0>>
       \/ /\ \/ /\ run.kind = "stage1"
                /\ \E o \in RunOutcomes("stage1") :
                      /\ Ran(run_stage1(o))
                      /\ pipeline' = [pipeline EXCEPT !.stage1 = StageStatus("stage1", o)]
             \/ /\ run.kind = "stage2"
                /\ \E o \in RunOutcomes("stage2") :
                      /\ Ran(run_stage2(o))
                      /\ pipeline' = [pipeline EXCEPT !.stage2 = StageStatus("stage2", o)]
             \/ /\ run.kind = "stage3"
                /\ \E o \in RunOutcomes("stage3"), l \in LlmOutputs :
                      /\ Ran(run_stage3(o, l))
                      /\ pipeline' = [pipeline EXCEPT !.stage3 = StageStatus("stage3", o)]
          /\ run' = [run EXCEPT !.at = "ended"]
    /\ UNCHANGED <<pc, dataVars, input, task, reqs, tasks, final>>

RunStep ==
    \/ BeginRun
    \/ Prepare
    \/ Stage1Start
    \/ Stage1End
    \/ Stage2Start
    \/ Stage2End
    \/ Stage3Start
    \/ Stage3End
    \/ StageRun

NextRun == StartRun \/ RefuseRun \/ RunStep

\* The worker thread that took the task keeps running it.
SpecRun == InitRun /\ [][NextRun]_vars /\ WF_vars(RunStep)

\* C28: every started run eventually leaves the job with a status other than
\* 'running'.
C28_AsStated == (run.at = "begun") ~> (meta.status # "running")

\* The same for runs of the whole pipeline, whose body is enclosed in a
\* try / except.
C28_PipelineEnds ==
    (run.kind = "pipeline" /\ run.at = "begun") ~> (meta.status # "running")

Skipped(st) ==
    st \in {"skipped_input_missing", "skipped_no_ocr", "skipped_no_stage2"}
             \cup {"skipped_" \o reason : reason \in OllamaReasons}

\* C29: in run_pipeline a stage is started only after its predecessor
\* succeeded, a stage that was not started is recorded as skipped, the job is
\* ready_for_review only if stage 2 succeeded, and an unavailable LLM leaves
\* stage 3 skipped and the job not in error.
C29_AsStated ==
    run.kind = "pipeline" =>
        /\ pipeline.stage2 = "running" => pipeline.stage1 = "success"
        /\ pipeline.stage3 = "running" => pipeline.stage2 = "success"
        /\ run.at = "ended" =>
              /\ \A s \in StageNames \ run.started : Skipped(pipeline[s])
              /\ meta.status = "ready_for_review" => pipeline.stage2 = "success"
              /\ run.llm = "unavailable" =>
                    Skipped(pipeline.stage3) /\ meta.status # "error"

\* C29 without the clause on stages that were not started.
C29_OrderAndStatus ==
    run.kind = "pipeline" =>
        /\ pipeline.stage2 = "running" => pipeline.stage1 = "success"
        /\ pipeline.stage3 = "running" => pipeline.stage2 = "success"
        /\ run.at = "ended" =>
              /\ meta.status = "ready_for_review" => pipeline.stage2 = "success"
              /\ run.llm = "unavailable" =>
                    Skipped(pipeline.stage3) /\ meta.status # "error"

(***************************************************************************)
(* Specification SpecFinal: review and finalization of a job               *)
(* (app/backend/main.py, _export_job).  The job has been run; all fields   *)
(* but those of PendingFields have been accepted by the reviewer.          *)
(***************************************************************************)
PendingFields == {"city", "lease_tenure_months", "monthly_rent_rs"}

ReviewPayloads ==
    { << f, a, None >> : f \in PendingFields, a \in {"accept", "clear"} }

\* The working state of a finished run after field_action 'accept' on every
\* field outside PendingFields.
Accepted(w) ==
    [w EXCEPT !.fields =
        [f \in FieldSet |->
            IF f \in PendingFields THEN w.fields[f]
            ELSE [w.fields[f] EXCEPT !.review =
                     [status |-> "reviewed", action |-> "accept"]]]]

InitFinal ==
    /\ pc = "job_ready"
    /\ bundle = EmptyBundle
    /\ evidence = NoEvidence
    /\ notes = << >>
    /\ row0 = BlankRow
    /\ row = BlankRow
    /\ suggestions = << >>
    /\ applied = << >>
    /\ conflicts = << >>
    /\ confidences = NoConfidence
    /\ queue = << >>
    /\ input \in DOMAIN JobBundles
    /\ meta = [status |-> "ready_for_review", llm_status |-> "unavailable"]
    /\ task = "none"
    /\ ocr = input
    /\ stage2 = Stage2Outputs[input]
    /\ stage3 = NoLlm
    /\ working = Accepted(FromStage2(stage2, NoLlm, "unavailable"))
    /\ working0 = working
    /\ first = NoFirst
    /\ library = FIELD_ANCHORS
    /\ NoScan
    /\ reqs = << >>
    /\ tasks = << >>
    /\ pipeline = [stage1 |-> "success", stage2 |-> "success",
                   stage3 |-> "skipped_unreachable"]
    /\ run = NoTask
    /\ final = NoFinal

\* No field is ever reported as unreviewed.
unreviewed_none(fields) == << >>

\* The names of the fields whose review status is not 'reviewed', in the
\* order of the working state's fields.
unreviewed(fields) ==
    SelectSeq(FIELDS, LAMBDA name : fields[name].review.status # "reviewed")

\* _export_job: refused with the unreviewed fields, or lease_final.json, the
\* spreadsheet row and the job's metadata are written.
_export_job(kind, require_review) ==
    /\ Len(reqs) < MaxRequests
    /\ IF require_review /\ unreviewed(working.fields) # << >>
       THEN /\ reqs' = Answered(kind, [status |-> 400,
                                       unreviewed |-> unreviewed(working.fields)])
            /\ pc' = "export_refused"
            /\ UNCHANGED <<meta, final>>
       ELSE /\ final' = [written |-> TRUE,
                         row |-> [f \in FieldSet |-> working.fields[f].value],
                         excel |-> TRUE]
            /\ meta' = IF require_review THEN [meta EXCEPT !.status = "finalized"]
                       ELSE meta
            /\ reqs' = Answered(kind, [status |-> 200, unreviewed |-> << >>])
            /\ pc' = "exported"
    /\ UNCHANGED <<dataVars, input, task, ocr, stage2, stage3, working, working0,
                   tasks, pipeline, run>>

\* POST /jobs/{id}/export_excel
export_excel == _export_job("export_excel", TRUE)

\* POST /jobs/{id}/finalize
finalize_job == _export_job("finalize", TRUE)

ReviewField == \E p \in ReviewPayloads : FieldAction(p)

NextFinal == ReviewField \/ export_excel \/ finalize_job

SpecFinal == InitFinal /\ [][NextFinal]_vars

AllReviewed == \A f \in FieldSet : working.fields[f].review.status = "reviewed"

Refusal ==
    [status |-> 400,
     unreviewed |-> SelectSeq(FIELDS,
                       LAMBDA f : working.fields[f].review.status = "unreviewed")]

\* C30: the job becomes 'finalized', and lease_final.json and the spreadsheet
\* row are written, only if every field of the working state is reviewed at
\* that moment; a finalize / export request made while a field is unreviewed
\* is answered with the list of the unreviewed fields and leaves the job's
\* metadata, working state and final files unchanged.
C30_ReviewedOnly ==
    [][ /\ (meta'.status = "finalized" /\ meta.status # "finalized") => AllReviewed
        /\ (final' # final) => AllReviewed /\ final'.written /\ final'.excel
        /\ (Len(reqs') > Len(reqs) /\ ~AllReviewed) =>
              /\ reqs'[Len(reqs')].answer = Refusal
              /\ UNCHANGED <<meta, working, final>> ]_vars

\* A request was refused while a field was unreviewed and, the review
\* completed, a later one finalized the job.
C30_Witness ==
    /\ Len(reqs) = 2
    /\ reqs[1].answer.status = 400 /\ reqs[1].answer.unreviewed # << >>
    /\ reqs[2].answer.status = 200
    /\ meta.status = "finalized"
    /\ final.written
    /\ AllReviewed

====
